---- MODULE Spec2Model ----
(***************************************************************************)
(* Acquisition-and-normalisation engine of energyMapBackend (entsoe_api).  *)
(*                                                                         *)
(* The module holds several state machines over one set of variables.      *)
(* Each specification drives one of them and leaves the others idle:       *)
(*   SpecFetch  - the resilient fetchers (_request_with_retries)           *)
(*   SpecParse  - the in-band error check of the document parsers          *)
(*   SpecBatch  - query_all_countries / query_pairs and the per-country    *)
(*                loop of the fetch_prices and fetch_generation commands   *)
(*   SpecAgg    - the aggregation by country and the per-zone             *)
(*                de-duplication of get_range / get_prices_range           *)
(*   SpecChunk  - the generator _chunk_datetimes, one iteration per step  *)
(*   SpecRange  - the request loops of get_range / get_prices_range       *)
(*   SpecCodec  - the four copies of the ISO 8601 duration codec           *)
(*   SpecExpand - the parsers' expansion of periods and points to records  *)
(*   SpecGraph  - the neighbour edges and zone pairs of fetch_flows        *)
(*   SpecStore  - the save functions of helper.py and the Country lookups   *)
(*   SpecView   - the country-code validation of the read views             *)
(*   SpecWindow - the bound-alignment helpers and the commands' window      *)
(*   SpecLatest - EntsoeInstalledCapacity.get_latest                        *)
(***************************************************************************)
EXTENDS Integers, Sequences, FiniteSets, TLC

VARIABLES
    \* ---- resilient fetcher (one _request_with_retries call) ----
    f_fam,        \* which fetcher class runs the call
    f_pc,         \* "idle" | "loop" | "done"
    f_max,        \* the max_retries argument of the call
    f_gets,       \* number of session.get() calls issued so far
    f_backoff,    \* the local variable backoff
    f_sleeps,     \* the time.sleep() calls made, in order: [wait, ra]
    f_empty,      \* responses 200 with a blank body seen by the loop
    f_noraise,    \* responses that raise_for_status() let pass
    f_last,       \* the last response received
    f_out,        \* the outcome of the call
    \* ---- document parser (one parse call) ----
    p_fam,        \* which parser runs: "A68" | "A75" | "A69" | "A44" | "A11"
    p_doc,        \* the document text handed to it
    p_out,        \* what the parser did: rows returned, or the error raised
    \* ---- multi-entity query (query_all_countries / query_pairs) ----
    b_cmd,        \* who runs: "none" | "direct" | "fetch_prices" | "fetch_generation"
    q_kind,       \* the fetcher class whose classmethod runs
    q_status,     \* "idle" | "running" | "returned" | "raised"
    q_skip,       \* the skip_errors argument
    q_agg,        \* the aggregate_by_country argument
    q_items,      \* the (country, zone) or (out, in) items to fetch, in loop order
    q_log,        \* the items fetched so far with what each fetch did
    q_frames,     \* the local list frames
    \* ---- management command: the per-country loop of handle() ----
    c_status,     \* "idle" | "loop" | "fetching" | "aborted" | "done"
    c_opts,       \* the command-line options
    c_todo,       \* sorted(country_to_eics.items())
    c_idx,        \* position in c_todo
    c_successful, \* the counter successful
    c_failed,     \* the counter failed
    c_no_data,    \* the list countries_no_data
    c_report,     \* what was printed for each country, with what really happened
    \* ---- aggregator / per-zone pass-through ----
    a_op,         \* "none" | "aggregate" | "dedup"
    a_fam,        \* the fetcher class
    a_in,         \* the records going in, in input order
    a_out,        \* the records coming out
    \* ---- _chunk_datetimes ----
    k_pc,         \* "idle" | "loop" | "done"
    k_start,      \* start_utc
    k_end,        \* end_utc
    k_max,        \* max_days
    k_cur,        \* cur
    k_out,        \* the (cur, nxt) pairs yielded so far
    \* ---- get_range / get_prices_range ----
    r_pc,         \* "idle" | "loop" | "done"
    r_fam,        \* the fetcher class
    r_start,      \* start
    r_end,        \* end
    r_paginate,   \* paginate (prices only)
    r_total,      \* records the platform holds for the window (prices)
    r_cur,        \* chunk cursor, or `offset` for prices
    r_reqs,       \* the HTTP requests made, in order
    r_frames,     \* record counts of the frames appended
    r_out,        \* "pending" | "empty" | "frame" | "raised"
    \* ---- duration codec ----
    d_copy,       \* which copy of the codec was called
    d_in,         \* the duration string, as characters
    d_out,        \* NotDecoded, minutes, or ValueError
    \* ---- point expansion of the parsers ----
    x_fam,        \* which parser ran
    x_doc,        \* the document's time series
    x_out,        \* NotExpanded, the records returned, or ExpandRaised
    \* ---- neighbour graph of fetch_flows ----
    g_pc,         \* "idle" | "edges" | "pairs" | "CommandError" | "summarized"
    g_iso,        \* iso_list, the selected countries
    g_mapped,     \* the countries that have a zone mapping
    g_neigh,      \* neighbors_map, on the selected countries
    g_edges,      \* pair_iso_edges
    g_missing,    \* missing_neighbor_map
    g_skipped,    \* skipped_neighbors_no_eic
    g_counts,     \* neighbor_counts
    g_pairs,      \* eic_pairs
    \* ---- persistence: one save function's table and the Country table ----
    s_pc,         \* "idle" | "saved" | "next" | "resubmitted"
    s_fam,        \* whose save function runs: capacity, generation, ..., flows
    s_countries,  \* the Country rows (their iso_code)
    s_cache,      \* the lru_cache of _country_by_iso: iso -> Country or None
    s_table,      \* the rows of the family's table
    s_saved,      \* the frames submitted so far, in order
    s_first,      \* the table as the first submission left it
    s_at,         \* the Country rows present when the last save ran
    \* ---- country validation of the read views ----
    v_pc,         \* "idle" | "done"
    v_codes,      \* the requested country codes, in request order
    v_store,      \* the primary keys of the Country table
    v_out,        \* what the call did: the list returned, or the error raised
    \* ---- bound alignment and the commands' explicit window ----
    w_op,         \* "none", the helper called, or the command whose handle() runs
    w_in,         \* the argument: a datetime, a string, or <<--start, --end>>
    w_out,        \* the error raised, or the instant(s) returned
    \* ---- EntsoeInstalledCapacity.get_latest ----
    l_pc,         \* "idle" | "fallback" | "select" | "done"
    l_now,        \* now_utc.year
    l_queries,    \* the windows queried, in order
    l_resps,      \* what each query gave: the parsed records, or an error
    l_target,     \* target_year
    l_out         \* the rows returned, or the error raised

fetchVars == <<f_fam, f_pc, f_max, f_gets, f_backoff, f_sleeps, f_empty,
               f_noraise, f_last, f_out>>
parseVars == <<p_fam, p_doc, p_out>>
queryVars == <<q_kind, q_status, q_skip, q_agg, q_items, q_log, q_frames>>
cmdVars == <<c_status, c_opts, c_todo, c_idx, c_successful, c_failed, c_no_data,
             c_report>>
batchVars == <<b_cmd, queryVars, cmdVars>>
aggVars == <<a_op, a_fam, a_in, a_out>>
chunkVars == <<k_pc, k_start, k_end, k_max, k_cur, k_out>>
rangeVars == <<r_pc, r_fam, r_start, r_end, r_paginate, r_total, r_cur, r_reqs, r_frames, r_out>>
codecVars == <<d_copy, d_in, d_out>>
expandVars == <<x_fam, x_doc, x_out>>
graphVars == <<g_pc, g_iso, g_mapped, g_neigh, g_edges, g_missing, g_skipped, g_counts,
               g_pairs>>
storeVars == <<s_pc, s_fam, s_countries, s_cache, s_table, s_saved, s_first, s_at>>
viewVars == <<v_pc, v_codes, v_store, v_out>>
windowVars == <<w_op, w_in, w_out>>
latestVars == <<l_pc, l_now, l_queries, l_resps, l_target, l_out>>

vars == <<fetchVars, parseVars, batchVars, aggVars, chunkVars, rangeVars, codecVars,
          expandVars, graphVars,
    storeVars,
    viewVars,
    windowVars,
    latestVars>>

\* what each machine leaves alone
notFetch == <<parseVars, batchVars, aggVars, chunkVars, rangeVars, codecVars,
    expandVars, graphVars,
    storeVars,
    viewVars,
    windowVars,
    latestVars>>
notParse == <<fetchVars, batchVars, aggVars, chunkVars, rangeVars, codecVars,
    expandVars, graphVars,
    storeVars,
    viewVars,
    windowVars,
    latestVars>>
notBatch == <<fetchVars, parseVars, aggVars, chunkVars, rangeVars, codecVars,
    expandVars, graphVars,
    storeVars,
    viewVars,
    windowVars,
    latestVars>>
notAgg == <<fetchVars, parseVars, batchVars, chunkVars, rangeVars, codecVars,
    expandVars, graphVars,
    storeVars,
    viewVars,
    windowVars,
    latestVars>>
notChunk == <<fetchVars, parseVars, batchVars, aggVars, rangeVars, codecVars,
    expandVars, graphVars,
    storeVars,
    viewVars,
    windowVars,
    latestVars>>
notRange == <<fetchVars, parseVars, batchVars, aggVars, chunkVars, codecVars,
    expandVars, graphVars,
    storeVars,
    viewVars,
    windowVars,
    latestVars>>
notCodec == <<fetchVars, parseVars, batchVars, aggVars, chunkVars, rangeVars,
    expandVars, graphVars,
    storeVars,
    viewVars,
    windowVars,
    latestVars>>
notExpand == <<fetchVars, parseVars, batchVars, aggVars, chunkVars, rangeVars, codecVars,
    graphVars,
    storeVars,
    viewVars,
    windowVars,
    latestVars>>
notGraph == <<fetchVars, parseVars, batchVars, aggVars, chunkVars, rangeVars, codecVars,
    expandVars,
    storeVars,
    viewVars,
    windowVars,
    latestVars>>
notView == <<fetchVars, parseVars, batchVars, aggVars, chunkVars,
    rangeVars, codecVars, expandVars, graphVars, storeVars,
    windowVars,
    latestVars>>
notStore == <<fetchVars, parseVars, batchVars, aggVars,
    chunkVars, rangeVars, codecVars, expandVars, graphVars,
    viewVars,
    windowVars,
    latestVars>>
notLatest == <<fetchVars, parseVars, batchVars, aggVars, chunkVars, rangeVars,
    codecVars, expandVars, graphVars, storeVars, viewVars, windowVars>>
notWindow == <<fetchVars, parseVars, batchVars, aggVars, chunkVars,
    rangeVars, codecVars, expandVars, graphVars, storeVars, viewVars,
    latestVars>>

Min(a, b) == IF a <= b THEN a ELSE b

RECURSIVE Pow2(_)
Pow2(n) == IF n <= 0 THEN 1 ELSE 2 * Pow2(n - 1)

(***************************************************************************)
(* Resilient fetcher                                                       *)
(***************************************************************************)

\* The five fetchers.  "forecast" inherits _request_with_retries from
\* "generation"; "prices" has its own single-shot version.
RetryingFamilies == {"capacity", "generation", "forecast", "flows"}
Families == RetryingFamilies \cup {"prices"}

\* max_retries: int = 5
DefaultMaxRetries == 5
\* largest max_retries argument a call is made with
MaxRetriesArg == 6
\* min(backoff * 2, 30)
BackoffCap == 30

\* if r.status_code in (429, 500, 502, 503, 504)
RetryableStatuses == {429, 500, 502, 503, 504}

\* Response bodies, as character sequences.
EmptyBody == << >>
BlankBody == <<" ", "\n">>
DocBody == <<"<", "d", "/", ">">>
ErrBody == <<"e", "r", "r">>
WhitespaceChars == {" ", "\n", "\t", "\r"}

\* str.strip(): drop leading and trailing whitespace
RECURSIVE LStrip(_)
LStrip(s) == IF s # << >> /\ Head(s) \in WhitespaceChars THEN LStrip(Tail(s)) ELSE s
RECURSIVE RStrip(_)
RStrip(s) == IF s # << >> /\ s[Len(s)] \in WhitespaceChars
             THEN RStrip(SubSeq(s, 1, Len(s) - 1)) ELSE s
Strip(s) == RStrip(LStrip(s))

\* Retry-After header values: "absent" is r.headers.get() returning None.
RetryAfterValues == {"absent", "", "0", "3", "Wed, 21 Oct 2015 07:28:00 GMT"}

\* float(retry_after): the number, or -1 for ValueError
ParseFloat(s) == CASE s = "0" -> 0
                   [] s = "3" -> 3
                   [] OTHER -> -1

\* Python truthiness of r.headers.get("Retry-After")
Truthy(ra) == ra # "absent" /\ ra # ""

\* What the server may answer to one GET.  status 0 stands for session.get()
\* raising (connection error, timeout).
Responses ==
    {[status |-> 200, body |-> b, ra |-> "absent"] : b \in {DocBody, EmptyBody, BlankBody}}
    \cup {[status |-> 429, body |-> ErrBody, ra |-> ra] : ra \in RetryAfterValues}
    \cup {[status |-> 503, body |-> EmptyBody, ra |-> "absent"],
          [status |-> 204, body |-> EmptyBody, ra |-> "absent"],
          [status |-> 404, body |-> ErrBody, ra |-> "absent"],
          [status |-> 0, body |-> EmptyBody, ra |-> "absent"]}

NoResponse == [status |-> -1, body |-> EmptyBody, ra |-> "absent"]

Pending == [kind |-> "pending", isNone |-> FALSE, text |-> EmptyBody, error |-> ""]
Returned(t) == [kind |-> "return", isNone |-> FALSE, text |-> t, error |-> ""]
ReturnedNone == [kind |-> "return", isNone |-> TRUE, text |-> EmptyBody, error |-> ""]
Raised(e) == [kind |-> "raise", isNone |-> FALSE, text |-> EmptyBody, error |-> e]

\* requests.Response.raise_for_status(): raises for 4xx and 5xx only
RaiseForStatus(status) == 400 <= status /\ status < 600

\* sleep_s = float(retry_after) if retry_after else backoff
\* (ValueError -> backoff)
SleepFor(ra, backoff) ==
    IF Truthy(ra) /\ ParseFloat(ra) >= 0 THEN ParseFloat(ra) ELSE backoff

NextBackoff_NoCap(backoff) == backoff * 2

\* backoff = min(backoff * 2, 30)
NextBackoff(backoff) == Min(backoff * 2, BackoffCap)

LoopHasNext_OffByOne(gets, max) == gets <= max

\* range(max_retries): is there another iteration
LoopHasNext(gets, max) == gets < max

FetchIdle ==
    /\ f_fam = "none"
    /\ f_pc = "idle"
    /\ f_max = 0
    /\ f_gets = 0
    /\ f_backoff = 0
    /\ f_sleeps = << >>
    /\ f_empty = 0
    /\ f_noraise = 0
    /\ f_last = NoResponse
    /\ f_out = Pending

\* A caller invokes fetcher._request_with_retries(params[, max_retries]).
StartCall ==
    /\ f_pc = "idle"
    /\ \E fam \in Families, m \in {DefaultMaxRetries, MaxRetriesArg} :
         /\ fam = "prices" => m = DefaultMaxRetries   \* prices takes no max_retries
         /\ f_fam' = fam
         /\ f_max' = m
    /\ f_pc' = "loop"
    /\ f_backoff' = 1
    /\ UNCHANGED <<f_gets, f_sleeps, f_empty, f_noraise, f_last, f_out>>
    /\ UNCHANGED notFetch

\* One iteration of the for loop of the retrying fetchers: the GET and what
\* the loop body does with the response.
Attempt ==
    /\ f_pc = "loop"
    /\ f_fam \in RetryingFamilies
    /\ LoopHasNext(f_gets, f_max)
    /\ \E r \in Responses :
         /\ f_gets' = f_gets + 1
         /\ f_last' = r
         /\ IF r.status = 0
            THEN /\ f_out' = Raised("ConnectionError")
                 /\ f_pc' = "done"
                 /\ UNCHANGED <<f_backoff, f_sleeps, f_empty, f_noraise>>
            ELSE IF r.status = 200 /\ Strip(r.body) # << >>
            THEN /\ f_out' = Returned(r.body)
                 /\ f_pc' = "done"
                 /\ UNCHANGED <<f_backoff, f_sleeps, f_empty, f_noraise>>
            ELSE IF r.status \in RetryableStatuses
            THEN /\ f_sleeps' = Append(f_sleeps,
                                   [wait |-> SleepFor(r.ra, f_backoff), ra |-> r.ra])
                 /\ f_backoff' = NextBackoff(f_backoff)
                 /\ UNCHANGED <<f_pc, f_out, f_empty, f_noraise>>
            ELSE IF RaiseForStatus(r.status)
            THEN /\ f_out' = Raised("HTTPError")
                 /\ f_pc' = "done"
                 /\ UNCHANGED <<f_backoff, f_sleeps, f_empty, f_noraise>>
            ELSE \* raise_for_status() returns: the loop goes on, without a sleep
                 /\ f_empty' = IF r.status = 200 THEN f_empty + 1 ELSE f_empty
                 /\ f_noraise' = IF r.status # 200 THEN f_noraise + 1 ELSE f_noraise
                 /\ UNCHANGED <<f_pc, f_out, f_backoff, f_sleeps>>
    /\ UNCHANGED <<f_fam, f_max>>
    /\ UNCHANGED notFetch

\* The for loop is exhausted: raise TimeoutError("... failed after retries").
Exhausted ==
    /\ f_pc = "loop"
    /\ f_fam \in RetryingFamilies
    /\ ~LoopHasNext(f_gets, f_max)
    /\ f_out' = Raised("TimeoutError")
    /\ f_pc' = "done"
    /\ UNCHANGED <<f_fam, f_max, f_gets, f_backoff, f_sleeps, f_empty, f_noraise, f_last>>
    /\ UNCHANGED notFetch

\* EntsoePrices._request_with_retries: one GET inside try/except, status 200
\* returns r.text, anything else falls off the end of the function.
PricesRequest ==
    /\ f_pc = "loop"
    /\ f_fam = "prices"
    /\ \E r \in Responses :
         /\ f_gets' = f_gets + 1
         /\ f_last' = r
         /\ f_out' = IF r.status = 200 THEN Returned(r.body) ELSE ReturnedNone
    /\ f_pc' = "done"
    /\ UNCHANGED <<f_fam, f_max, f_backoff, f_sleeps, f_empty, f_noraise>>
    /\ UNCHANGED notFetch

NextFetch == StartCall \/ Attempt \/ Exhausted \/ PricesRequest

(***************************************************************************)
(* Document parsers: well-formedness and the in-band <Reason> check        *)
(***************************************************************************)

\* Namespace of a document's elements: the generation/load schema, the
\* publication schema, the acknowledgement schema, or none.
NsGL == "generationloaddocument:3:0"
NsPub == "publicationdocument:7:3"
NsAck == "acknowledgementdocument:7:0"
Namespaces == {NsGL, NsPub, NsAck, ""}

\* A child element of <Reason>: its tag, its text, and how many children it
\* has itself (ElementTree's truth value of an element is len(element) != 0).
NoChild == [tag |-> "", content |-> << >>, kids |-> 0]
CodeText == <<"9", "9", "9">>
ReasonText == <<"N", "o", " ", "d", "a", "t", "a">>
Contents(t) == {<< >>, <<" ">>, t}
CodeChildren ==
    {NoChild} \cup {[tag |-> t, content |-> c, kids |-> k] :
                       t \in {"code", "Code"}, c \in Contents(CodeText), k \in {0, 1}}
TextChildren ==
    {NoChild} \cup {[tag |-> t, content |-> c, kids |-> k] :
                       t \in {"text", "Text"}, c \in Contents(ReasonText), k \in {0, 1}}
ReasonElements == [code : CodeChildren, text : TextChildren]

\* most <Reason> elements a document carries
MaxReasons == 1
\* most rows the TimeSeries of a document expand to
MaxRows == 2

RECURSIVE SeqsUpTo(_, _)
SeqsUpTo(S, n) ==
    IF n = 0 THEN {<< >>}
    ELSE LET shorter == SeqsUpTo(S, n - 1)
         IN shorter \cup {Append(q, x) : q \in {t \in shorter : Len(t) = n - 1}, x \in S}

\* A document: all its elements are in the namespace ns; rows is the number of
\* points its TimeSeries hold.
Documents ==
    {[wellFormed |-> FALSE, ns |-> "", reasons |-> << >>, rows |-> 0]}
    \cup [wellFormed : {TRUE}, ns : Namespaces,
          reasons : SeqsUpTo(ReasonElements, MaxReasons), rows : 0..MaxRows]

NoDocument == [wellFormed |-> FALSE, ns |-> "none", reasons |-> << >>, rows |-> 0]

NotParsed == [kind |-> "pending", rows |-> 0, error |-> ""]
ParsedRows(n) == [kind |-> "rows", rows |-> n, error |-> ""]
ParseRaised(e) == [kind |-> "raise", rows |-> 0, error |-> e]

\* root.findall(".//gl:Reason", ns) with a fixed namespace map
FindAllFixed(doc, ns) == IF doc.ns = ns THEN doc.reasons ELSE << >>
\* root.findall(".//ns:Reason", ns) if ns else root.findall(".//Reason"),
\* ns being the namespace of the root tag
FindAllRootNs(doc) == doc.reasons

\* reason.findtext("ns:code", default=""): the text of the child with that tag
FindText(child, tag) == IF child # NoChild /\ child.tag = tag THEN child.content ELSE << >>

\* reason.find(tag): the child with that tag, or None (NoChild)
Find(child, tag) == IF child # NoChild /\ child.tag = tag THEN child ELSE NoChild

\* bool(element): an element without children is falsy
ElementTruthy(el) == el # NoChild /\ el.kids > 0

FindEither_NoneTest(child, tag1, tag2) ==
    IF Find(child, tag1) # NoChild THEN Find(child, tag1) ELSE Find(child, tag2)

\* reason.find(tag1) or reason.find(tag2)
FindEither(child, tag1, tag2) ==
    IF ElementTruthy(Find(child, tag1)) THEN Find(child, tag1) ELSE Find(child, tag2)

\* (el.text or "").strip() if el is not None else ""
ElementText(el) == IF el # NoChild THEN Strip(el.content) ELSE << >>

\* _parse_a68, _parse_a75, _parse_a44: any matched Reason raises
ParseFixedNs(doc, ns) ==
    IF ~doc.wellFormed THEN ParseRaised("ParseError")
    ELSE IF FindAllFixed(doc, ns) # << >> THEN ParseRaised("RuntimeError")
    ELSE ParsedRows(IF doc.ns = ns THEN doc.rows ELSE 0)

\* _parse_a69: a Reason raises when its code or text is not blank
ParseA69(doc) ==
    IF ~doc.wellFormed THEN ParseRaised("ParseError")
    ELSE IF \E i \in 1..Len(FindAllRootNs(doc)) :
              LET reason == FindAllRootNs(doc)[i]
              IN \/ Strip(FindText(reason.code, "code")) # << >>
                 \/ Strip(FindText(reason.text, "text")) # << >>
         THEN ParseRaised("RuntimeError")
    ELSE ParsedRows(doc.rows)

\* _parse_a11: code_el = reason.find("ns:code", ns) or reason.find("ns:Code", ns)
ParseA11(doc) ==
    IF ~doc.wellFormed THEN ParseRaised("ParseError")
    ELSE IF \E i \in 1..Len(FindAllRootNs(doc)) :
              LET reason == FindAllRootNs(doc)[i]
              IN \/ ElementText(FindEither(reason.code, "code", "Code")) # << >>
                 \/ ElementText(FindEither(reason.text, "text", "Text")) # << >>
         THEN ParseRaised("RuntimeError")
    ELSE ParsedRows(doc.rows)

ParseIdle ==
    /\ p_fam = "none"
    /\ p_doc = NoDocument
    /\ p_out = NotParsed

\* EntsoeInstalledCapacity._parse_a68(xml_text, zone)
Parse_a68 ==
    /\ p_fam = "none"
    /\ \E doc \in Documents :
         /\ p_doc' = doc
         /\ p_out' = ParseFixedNs(doc, NsGL)
    /\ p_fam' = "A68"
    /\ UNCHANGED notParse

\* EntsoeGenerationByType._parse_a75(xml_text, zone), also used for A71
Parse_a75 ==
    /\ p_fam = "none"
    /\ \E doc \in Documents :
         /\ p_doc' = doc
         /\ p_out' = ParseFixedNs(doc, NsGL)
    /\ p_fam' = "A75"
    /\ UNCHANGED notParse

\* EntsoePrices._parse_a44(xml_text, zone_eic)
Parse_a44 ==
    /\ p_fam = "none"
    /\ \E doc \in Documents :
         /\ p_doc' = doc
         /\ p_out' = ParseFixedNs(doc, NsPub)
    /\ p_fam' = "A44"
    /\ UNCHANGED notParse

\* generation_res._parse_a69(xml_text, zone_eic, allowed_psr)
Parse_a69 ==
    /\ p_fam = "none"
    /\ \E doc \in Documents :
         /\ p_doc' = doc
         /\ p_out' = ParseA69(doc)
    /\ p_fam' = "A69"
    /\ UNCHANGED notParse

\* EntsoePhysicalFlows._parse_a11(xml_text, out_eic_fallback, in_eic_fallback)
Parse_a11 ==
    /\ p_fam = "none"
    /\ \E doc \in Documents :
         /\ p_doc' = doc
         /\ p_out' = ParseA11(doc)
    /\ p_fam' = "A11"
    /\ UNCHANGED notParse

NextParse == Parse_a68 \/ Parse_a75 \/ Parse_a44 \/ Parse_a69 \/ Parse_a11


(***************************************************************************)
(* Multi-entity queries and the commands' per-country loop                 *)
(***************************************************************************)

\* number of countries in settings.ENTSOE_COUNTRY_TO_EICS
NumCountries == 2
\* --max-retries default of the commands
CmdDefaultMaxRetries == 3

CountryCodes == 1..NumCountries

\* Zones of a country: even countries are multi-zone (a list of two EICs),
\* odd ones map to a single EIC string.
ZonesOf(c) == IF c % 2 = 0 THEN <<10 * c + 1, 10 * c + 2>> ELSE <<10 * c + 1>>

\* The mapping in dict (insertion) order: highest country code first.
MappingOrder == [i \in 1..NumCountries |-> NumCountries + 1 - i]

RECURSIVE Concat(_)
Concat(ss) == IF ss = << >> THEN << >> ELSE Head(ss) \o Concat(Tail(ss))

\* for country, zones in country_to_eics.items(): for z in zone_list
ItemsOfCountry(c) == [j \in 1..Len(ZonesOf(c)) |-> [country |-> c, key |-> <<ZonesOf(c)[j]>>]]
ItemsOfMapping(order) == Concat([i \in 1..Len(order) |-> ItemsOfCountry(order[i])])

\* the (out, in) pairs handed to query_pairs: first zones of neighbouring
\* countries, both directions
PairItems ==
    Concat([i \in 1..(NumCountries - 1) |->
              << [country |-> 0, key |-> <<ZonesOf(i)[1], ZonesOf(i + 1)[1]>>],
                 [country |-> 0, key |-> <<ZonesOf(i + 1)[1], ZonesOf(i)[1]>>] >>])

\* sorted(country_to_eics.items()): ascending country code
RECURSIVE SortedSeq(_)
SortedSeq(S) ==
    IF S = {} THEN << >>
    ELSE LET lo == CHOOSE x \in S : \A y \in S : x <= y
         IN <<lo>> \o SortedSeq(S \ {lo})

\* What one get_range / get_latest / get_prices_range call does: returns rows,
\* returns an empty frame (a well-formed document with zero points), or raises
\* (fetch or parse error).
FetchOutcomes == {"rows", "empty", "error"}

QueryKinds == {"capacity", "generation", "forecast", "prices", "pairs"}

OnError_AlwaysSkip(skip) == "continue"

\* except Exception: if skip_errors: continue; raise
OnError(skip) == IF skip THEN "continue" ELSE "raise"

\* capacity appends every frame; the others `continue` on df.empty
KeepsFrame(kind, outcome) ==
    outcome = "rows" \/ (outcome = "empty" /\ kind = "capacity")

\* the zones whose rows the groupby over "country" puts into the
\* aggregate of the country
AggregatedZones(frames, c) ==
    {frames[i].item.key : i \in {j \in 1..Len(frames) :
                                   frames[j].item.country = c /\ frames[j].rows > 0}}
\* the zones of the country whose get_range raised and was skipped
SkippedZones(log, c) ==
    {log[i].item.key : i \in {j \in 1..Len(log) :
                                log[j].item.country = c /\ log[j].outcome = "error"}}

\* df.empty of the frame query_all_countries returns
ResultEmpty(frames) == \A i \in 1..Len(frames) : frames[i].rows = 0

QueryIdle ==
    /\ q_kind = "none"
    /\ q_status = "idle"
    /\ q_skip = TRUE
    /\ q_agg = FALSE
    /\ q_items = << >>
    /\ q_log = << >>
    /\ q_frames = << >>

NoOpts == [dry |-> FALSE, cont |-> FALSE, maxr |-> 0, sel |-> 0, agg |-> FALSE]

CmdIdle ==
    /\ c_status = "idle"
    /\ c_opts = NoOpts
    /\ c_todo = << >>
    /\ c_idx = 0
    /\ c_successful = 0
    /\ c_failed = 0
    /\ c_no_data = << >>
    /\ c_report = << >>

BatchIdle == b_cmd = "none" /\ QueryIdle /\ CmdIdle

\* A caller invokes X.query_all_countries(api_key, mapping, ..., skip_errors)
\* or EntsoePhysicalFlows.query_pairs(api_key, pairs, ..., skip_errors).
DirectCall ==
    /\ b_cmd = "none"
    /\ b_cmd' = "direct"
    /\ \E kind \in QueryKinds, skip \in BOOLEAN, agg \in BOOLEAN :
         /\ kind = "pairs" => ~agg                 \* query_pairs has no aggregate mode
         /\ q_kind' = kind
         /\ q_skip' = skip
         /\ q_agg' = agg
         /\ q_items' = IF kind = "pairs" THEN PairItems ELSE ItemsOfMapping(MappingOrder)
    /\ q_status' = "running"
    /\ q_log' = << >>
    /\ q_frames' = << >>
    /\ UNCHANGED cmdVars
    /\ UNCHANGED notBatch

\* One iteration of the zone (or pair) loop: the fetch inside try/except.
FetchZone ==
    /\ q_status = "running"
    /\ Len(q_log) < Len(q_items)
    /\ LET item == q_items[Len(q_log) + 1]
       IN \E o \in FetchOutcomes :
            /\ q_log' = Append(q_log, [item |-> item, outcome |-> o])
            /\ q_frames' = IF KeepsFrame(q_kind, o)
                           THEN Append(q_frames, [item |-> item,
                                                  rows |-> IF o = "rows" THEN 1 ELSE 0])
                           ELSE q_frames
            /\ q_status' = IF o = "error" /\ OnError(q_skip) = "raise"
                           THEN "raised" ELSE "running"
    /\ UNCHANGED <<b_cmd, q_kind, q_skip, q_agg, q_items, cmdVars>>
    /\ UNCHANGED notBatch

\* The loop is over: concat the frames (or build the empty frame) and return.
QueryReturn ==
    /\ q_status = "running"
    /\ Len(q_log) = Len(q_items)
    /\ q_status' = "returned"
    /\ UNCHANGED <<b_cmd, q_kind, q_skip, q_agg, q_items, q_log, q_frames, cmdVars>>
    /\ UNCHANGED notBatch

\* manage.py fetch_prices / fetch_generation: options parsed, loop entered.
CmdStart ==
    /\ b_cmd = "none"
    /\ \E cmd \in {"fetch_prices", "fetch_generation"}, sel \in {0} \cup CountryCodes,
          dry \in BOOLEAN, cont \in BOOLEAN, maxr \in {0, CmdDefaultMaxRetries},
          agg \in BOOLEAN :
         /\ cmd = "fetch_generation" => ~dry        \* only fetch_prices has --dry-run
         /\ cmd = "fetch_prices" => agg             \* only fetch_generation has --no-aggregate
         /\ b_cmd' = cmd
         /\ c_opts' = [dry |-> dry, cont |-> cont, maxr |-> maxr, sel |-> sel, agg |-> agg]
         /\ c_todo' = IF sel = 0 THEN SortedSeq(CountryCodes) ELSE <<sel>>
    /\ c_status' = "loop"
    /\ c_idx' = 1
    /\ UNCHANGED <<c_successful, c_failed, c_no_data, c_report, queryVars>>
    /\ UNCHANGED notBatch

\* fetch_country_with_retry, first pass of `for attempt in range(max_retries)`:
\* query_all_countries({country: eics}, aggregate..., skip_errors=True).
CmdFetchCountry ==
    /\ c_status = "loop"
    /\ c_idx <= Len(c_todo)
    /\ c_opts.maxr > 0
    /\ c_status' = "fetching"
    /\ q_kind' = IF b_cmd = "fetch_prices" THEN "prices" ELSE "generation"
    /\ q_skip' = TRUE
    /\ q_agg' = c_opts.agg
    /\ q_items' = ItemsOfCountry(c_todo[c_idx])
    /\ q_status' = "running"
    /\ q_log' = << >>
    /\ q_frames' = << >>
    /\ UNCHANGED <<b_cmd, c_opts, c_todo, c_idx, c_successful, c_failed, c_no_data, c_report>>
    /\ UNCHANGED notBatch

ErrorsIn(log) == Cardinality({i \in 1..Len(log) : log[i].outcome = "error"})
RowsIn(log) == Cardinality({i \in 1..Len(log) : log[i].outcome = "rows"})

Reported(country, verdict) ==
    [country |-> country, verdict |-> verdict, zones |-> Len(q_items),
     errors |-> ErrorsIn(q_log), rows |-> RowsIn(q_log)]

NoDataAfter_NotListed(cmd, no_data, country) == no_data
\* elif df is not None and df.empty: fetch_prices lists the country in
\* countries_no_data, fetch_generation only prints the warning
NoDataAfter(cmd, no_data, country) ==
    IF cmd = "fetch_prices" THEN Append(no_data, country) ELSE no_data

\* The rest of the loop body of handle() once fetch_country_with_retry has
\* returned the frame of query_all_countries.
CmdClassify ==
    /\ c_status = "fetching"
    /\ q_status = "returned"
    /\ LET country == c_todo[c_idx]
       IN IF ~ResultEmpty(q_frames)
          THEN \* df is not None and not df.empty
               \E saved \in BOOLEAN :
                  /\ c_opts.dry => saved
                  /\ c_successful' = IF saved THEN c_successful + 1 ELSE c_successful
                  /\ c_failed' = IF saved THEN c_failed ELSE c_failed + 1
                  /\ c_report' = Append(c_report,
                        Reported(country, IF saved THEN "success" ELSE "save_failed"))
                  /\ c_status' = IF ~saved /\ ~c_opts.cont THEN "aborted" ELSE "loop"
                  /\ c_idx' = IF ~saved /\ ~c_opts.cont THEN c_idx ELSE c_idx + 1
                  /\ UNCHANGED c_no_data
          ELSE \* df is not None and df.empty: "No data available"
               /\ c_no_data' = NoDataAfter(b_cmd, c_no_data, country)
               /\ c_report' = Append(c_report, Reported(country, "no_data"))
               /\ c_status' = "loop"
               /\ c_idx' = c_idx + 1
               /\ UNCHANGED <<c_successful, c_failed>>
    /\ q_kind' = "none"
    /\ q_status' = "idle"
    /\ q_skip' = TRUE
    /\ q_agg' = FALSE
    /\ q_items' = << >>
    /\ q_log' = << >>
    /\ q_frames' = << >>
    /\ UNCHANGED <<b_cmd, c_opts, c_todo>>
    /\ UNCHANGED notBatch

\* fetch_country_with_retry returned None (with --max-retries 0 the attempt
\* loop is empty): the else branch of the loop body.
CmdFetchFailed ==
    /\ c_status = "loop"
    /\ c_idx <= Len(c_todo)
    /\ c_opts.maxr = 0
    /\ c_failed' = c_failed + 1
    /\ c_report' = Append(c_report,
          [country |-> c_todo[c_idx], verdict |-> "failed",
           zones |-> Len(ZonesOf(c_todo[c_idx])), errors |-> 0, rows |-> 0])
    /\ c_status' = IF c_opts.cont THEN "loop" ELSE "aborted"
    /\ c_idx' = IF c_opts.cont THEN c_idx + 1 ELSE c_idx
    /\ UNCHANGED <<b_cmd, c_opts, c_todo, c_successful, c_no_data, queryVars>>
    /\ UNCHANGED notBatch

\* The loop is over: the summary is printed.
CmdSummary ==
    /\ c_status = "loop"
    /\ c_idx > Len(c_todo)
    /\ c_status' = "done"
    /\ UNCHANGED <<b_cmd, c_opts, c_todo, c_idx, c_successful, c_failed, c_no_data,
                   c_report, queryVars>>
    /\ UNCHANGED notBatch

NextBatch ==
    \/ DirectCall \/ FetchZone \/ QueryReturn
    \/ CmdStart \/ CmdFetchCountry \/ CmdClassify \/ CmdFetchFailed \/ CmdSummary


(***************************************************************************)
(* Aggregation by country and per-zone de-duplication                      *)
(***************************************************************************)

\* timestamps inside the requested window are 0 .. NumTimestamps-1
NumTimestamps == 1
\* most records one get_range call concatenates
MaxRecs == 3

\* a value is a number, or Null (None / NaN)
Null == -1
Values == {Null, 100}
\* values of the records one get_range call concatenates
DedupValues == {0, 100}
\* production types: a code, or NoPsr (psr_type None)
NoPsr == 0
B16 == 16
Psrs == {B16, NoPsr}
\* the synthetic bucket of the forecast class (ALL_PSR_CODE = "ALL", which
\* sorts before every "Bnn" code)
ALL_PSR_CODE == 1
AggZones == {1, 2}

\* The rows of one country's zones, each zone already de-duplicated by
\* get_range: at most one row per (zone, psr_type, timestamp).
Absent == -2
CellSets == [AggZones \X Psrs \X (0..(NumTimestamps - 1)) -> Values \cup {Absent}]
RowsOf(cells) ==
    {[zone |-> k[1], cat |-> k[2], ts |-> k[3], val |-> cells[k]] :
        k \in {x \in DOMAIN cells : cells[x] # Absent}}

RECURSIVE SumVals(_)
SumVals(R) ==
    IF R = {} THEN 0
    ELSE LET r == CHOOSE x \in R : TRUE IN r.val + SumVals(R \ {r})

\* SeriesGroupBy.sum(): NaN is skipped, and the sum of nothing is 0
GroupSum(R) == SumVals({r \in R : r.val # Null})

\* groupby(keys, dropna=...): the groups, as (psr_type, timestamp) keys
GroupKeys(R, dropna) ==
    {<<r.cat, r.ts>> : r \in {x \in R : ~dropna \/ x.cat # NoPsr}}

GroupBySum(R, dropna) ==
    {[cat |-> k[1], ts |-> k[2],
      val |-> GroupSum({r \in R : r.cat = k[1] /\ r.ts = k[2]})] :
        k \in GroupKeys(R, dropna)}

\* EntsoeInstalledCapacity.query_all_countries: dropna(subset=[value, year])
\* first, then groupby(...).sum()
AggregateCapacity(R) == GroupBySum({r \in R : r.val # Null}, TRUE)
\* EntsoeGenerationByType.query_all_countries: groupby(...).sum(numeric_only=True)
AggregateGeneration(R) == GroupBySum(R, TRUE)
ALL_PSR_NAME == "All production types"
\* a psr_type that is "" or only spaces
BlankPsr == 2
\* fillna("").astype(str).str.strip().eq("")
MissingPsr(c) == c \in {NoPsr, BlankPsr}
EnsurePsrValues_Keep(r) == r
\* EntsoeGenerationForecastByType._ensure_psr_values, the psr_type of one row
EnsurePsrValues(r) == IF MissingPsr(r.cat) THEN [r EXCEPT !.cat = ALL_PSR_CODE] ELSE r

\* psr_name: None, blank, or a name
NoName == "None"
PsrNames == {NoName, "", "Solar"}
BlankName(n) == n \in {NoName, ""}
\* the frames _ensure_psr_values is given
EnsureRows == [ts : {0}, cat : {B16, NoPsr, BlankPsr}, name : PsrNames, val : {Null, 100}]
\* _ensure_psr_values on a frame: untouched when no psr_type is missing, else
\* psr_type filled where missing and psr_name filled where either is missing
EnsureFrame(s) ==
    IF \A i \in 1..Len(s) : ~MissingPsr(s[i].cat) THEN s
    ELSE [i \in 1..Len(s) |->
            IF MissingPsr(s[i].cat) \/ BlankName(s[i].name)
            THEN [EnsurePsrValues(s[i]) EXCEPT !.name = ALL_PSR_NAME]
            ELSE s[i]]
\* EntsoeGenerationForecastByType.query_all_countries: _ensure_psr_values on
\* each zone's frame, then groupby(..., dropna=False)
AggregateForecast(R) == GroupBySum({EnsurePsrValues(r) : r \in R}, FALSE)

\* ---- per-zone pass-through ----
DedupRecords == [ts : 0..NumTimestamps, cat : Psrs, val : DedupValues]
SameKey(a, b) == a.ts = b.ts /\ a.cat = b.cat

RECURSIVE SelectIdx(_, _, _)
SelectIdx(s, keep, i) ==
    IF i > Len(s) THEN << >>
    ELSE (IF i \in keep THEN <<s[i]>> ELSE << >>) \o SelectIdx(s, keep, i + 1)

\* DataFrame.drop_duplicates(subset=key): keep="first" is the default
DropDuplicatesFirst(s) ==
    SelectIdx(s, {i \in 1..Len(s) : ~\E j \in 1..(i - 1) : SameKey(s[j], s[i])}, 1)
\* DataFrame.drop_duplicates(subset=key, keep="last")
DropDuplicatesLast(s) ==
    SelectIdx(s, {i \in 1..Len(s) : ~\E j \in (i + 1)..Len(s) : SameKey(s[j], s[i])}, 1)

\* sort key (datetime_utc, psr_type); a missing psr_type sorts last
PsrRank(c) == IF c = NoPsr THEN 1000 ELSE c
KeyLess(a, b) == a.ts < b.ts \/ (a.ts = b.ts /\ PsrRank(a.cat) < PsrRank(b.cat))

RECURSIVE InsertSorted(_, _)
InsertSorted(s, x) ==
    IF s = << >> THEN <<x>>
    ELSE IF KeyLess(x, s[Len(s)]) THEN Append(InsertSorted(SubSeq(s, 1, Len(s) - 1), x), s[Len(s)])
    ELSE Append(s, x)
\* DataFrame.sort_values on several columns: a stable sort
RECURSIVE SortValues(_)
SortValues(s) ==
    IF s = << >> THEN << >> ELSE InsertSorted(SortValues(SubSeq(s, 1, Len(s) - 1)), s[Len(s)])

\* df[(ts >= start) & (ts < end)]
InWindow(r) == 0 <= r.ts /\ r.ts < NumTimestamps
Clip(s) == SelectIdx(s, {i \in 1..Len(s) : InWindow(s[i])}, 1)

\* EntsoeGenerationByType.get_range and EntsoePhysicalFlows.get_range:
\* drop_duplicates, sort_values, clip
GetRangeGeneration(s) == Clip(SortValues(DropDuplicatesFirst(s)))
\* EntsoeGenerationForecastByType.get_range: the parent's, then _ensure_psr_values
GetRangeForecast(s) ==
    [i \in 1..Len(GetRangeGeneration(s)) |-> EnsurePsrValues(GetRangeGeneration(s)[i])]
\* EntsoePrices.get_prices_range: clip, sort_values, drop_duplicates(keep="last")
GetPricesRange(s) == DropDuplicatesLast(SortValues(Clip(s)))

AggIdle ==
    /\ a_op = "none"
    /\ a_fam = "none"
    /\ a_in = << >>
    /\ a_out = {}

\* the aggregate_by_country branch of query_all_countries
Aggregate ==
    /\ a_op = "none"
    /\ a_op' = "aggregate"
    /\ \E fam \in {"capacity", "generation", "forecast"}, cells \in CellSets :
         /\ a_fam' = fam
         /\ a_in' = RowsOf(cells)
         /\ a_out' = CASE fam = "capacity" -> AggregateCapacity(RowsOf(cells))
                       [] fam = "generation" -> AggregateGeneration(RowsOf(cells))
                       [] fam = "forecast" -> AggregateForecast(RowsOf(cells))
    /\ UNCHANGED notAgg

\* the tail of get_range / get_prices_range, after the frames are concatenated
PassThrough ==
    /\ a_op = "none"
    /\ a_op' = "dedup"
    /\ \E fam \in {"generation", "forecast", "flows", "prices"},
          recs \in SeqsUpTo(DedupRecords, MaxRecs) :
         \* flow rows carry no production type
         /\ fam = "flows" => \A i \in 1..Len(recs) : recs[i].cat = NoPsr
         /\ a_fam' = fam
         /\ a_in' = recs
         /\ a_out' = CASE fam = "prices" -> GetPricesRange(recs)
                       [] fam = "forecast" -> GetRangeForecast(recs)
                       [] OTHER -> GetRangeGeneration(recs)
    /\ UNCHANGED notAgg

\* EntsoeGenerationForecastByType._ensure_psr_values called on a frame
Normalize ==
    /\ a_op = "none"
    /\ a_op' = "ensure"
    /\ a_fam' = "forecast"
    /\ \E frame \in SeqsUpTo(EnsureRows, MaxRecs) :
         /\ a_in' = frame
         /\ a_out' = EnsureFrame(frame)
    /\ UNCHANGED notAgg

NextAgg == Aggregate \/ PassThrough \/ Normalize

(***************************************************************************)
(* _chunk_datetimes: the window generator of get_range                     *)
(***************************************************************************)

\* Time is counted in half days, so that a range of two and a half spans can
\* be written down.
TicksPerDay == 2
\* start_utc and end_utc range over 0 .. MaxTime
MaxTime == 10
\* max_days ranges over 1 .. MaxDays
MaxDays == 2

\* dt.timedelta(days=max_days)
TimeDelta(days) == days * TicksPerDay

ChunkNext_NoMin(cur, end, max_days) == cur + TimeDelta(max_days)
\* nxt = min(cur + dt.timedelta(days=max_days), end_utc)
ChunkNext(cur, end, max_days) == Min(cur + TimeDelta(max_days), end)

ChunkIdle ==
    /\ k_pc = "idle"
    /\ k_start = 0
    /\ k_end = 0
    /\ k_max = 1
    /\ k_cur = 0
    /\ k_out = << >>

\* cur = start_utc
ChunkCall ==
    /\ k_pc = "idle"
    /\ \E s \in 0..MaxTime, e \in 0..MaxTime, d \in 1..MaxDays :
         /\ k_start' = s
         /\ k_end' = e
         /\ k_max' = d
         /\ k_cur' = s
    /\ k_out' = << >>
    /\ k_pc' = "loop"
    /\ UNCHANGED notChunk

\* one pass of the while body: yield cur, nxt; cur = nxt
ChunkYield ==
    /\ k_pc = "loop"
    /\ k_cur < k_end
    /\ k_out' = Append(k_out, <<k_cur, ChunkNext(k_cur, k_end, k_max)>>)
    /\ k_cur' = ChunkNext(k_cur, k_end, k_max)
    /\ UNCHANGED <<k_pc, k_start, k_end, k_max>>
    /\ UNCHANGED notChunk

\* the while condition fails: the generator is exhausted
ChunkStop ==
    /\ k_pc = "loop"
    /\ ~(k_cur < k_end)
    /\ k_pc' = "done"
    /\ UNCHANGED <<k_start, k_end, k_max, k_cur, k_out>>
    /\ UNCHANGED notChunk

NextChunk == ChunkCall \/ ChunkYield \/ ChunkStop

(***************************************************************************)
(* get_range / get_prices_range: which requests a range fetch makes        *)
(***************************************************************************)

\* max_days=365 of get_range
RangeMaxDays == 365
\* offset += 100
OffsetStep == 100
\* the platform holds 0, 50, 100, ... records, at most MaxServerPages full
\* pages and a half
MaxServerPages == 2
ServerTotals == {50 * k : k \in 0..(2 * MaxServerPages + 1)}
\* requested instants: within one chunk, one chunk apart, more than two apart
RangeTimes == {0, 1, TimeDelta(RangeMaxDays), 2 * TimeDelta(RangeMaxDays) + 1}
RangeFamilies == {"generation", "forecast", "prices", "flows"}

\* records of the page the platform serves at an offset
PageAt(total, offset) == Min(OffsetStep, IF total > offset THEN total - offset ELSE 0)

\* if start >= end: return the empty frame (generation, forecast inherits, flows)
GuardsEmptyWindow(fam) == fam \in {"generation", "forecast", "flows"}

RangeIdle ==
    /\ r_pc = "idle"
    /\ r_fam = "none"
    /\ r_start = 0
    /\ r_end = 0
    /\ r_paginate = FALSE
    /\ r_total = 0
    /\ r_cur = 0
    /\ r_reqs = << >>
    /\ r_frames = << >>
    /\ r_out = "pending"

\* entry of get_range / get_prices_range
RangeCall ==
    /\ r_pc = "idle"
    /\ \E fam \in RangeFamilies, s \in RangeTimes, e \in RangeTimes,
          pg \in BOOLEAN, total \in ServerTotals :
         /\ fam # "prices" => (pg = FALSE /\ total = 0)
         /\ r_fam' = fam
         /\ r_start' = s
         /\ r_end' = e
         /\ r_paginate' = pg
         /\ r_total' = total
         /\ r_cur' = IF fam = "prices" THEN 0 ELSE s
         /\ IF GuardsEmptyWindow(fam) /\ s >= e
            THEN r_pc' = "done" /\ r_out' = "empty"
            ELSE r_pc' = "loop" /\ r_out' = "pending"
    /\ r_reqs' = << >>
    /\ r_frames' = << >>
    /\ UNCHANGED notRange

\* generation / forecast: one pass of `for s, e in _chunk_datetimes(...)`
RangeChunk ==
    /\ r_pc = "loop"
    /\ r_fam \in {"generation", "forecast"}
    /\ r_cur < r_end
    /\ r_reqs' = Append(r_reqs, <<r_cur, ChunkNext(r_cur, r_end, RangeMaxDays)>>)
    /\ \E outcome \in FetchOutcomes :
         CASE outcome = "error" ->
                 r_pc' = "done" /\ r_out' = "raised" /\ UNCHANGED <<r_cur, r_frames>>
           [] outcome = "rows" ->
                 /\ r_cur' = ChunkNext(r_cur, r_end, RangeMaxDays)
                 /\ r_frames' = Append(r_frames, 1)
                 /\ UNCHANGED <<r_pc, r_out>>
           [] outcome = "empty" ->
                 /\ r_cur' = ChunkNext(r_cur, r_end, RangeMaxDays)
                 /\ UNCHANGED <<r_pc, r_out, r_frames>>
    /\ UNCHANGED <<r_fam, r_start, r_end, r_paginate, r_total>>
    /\ UNCHANGED notRange

\* generation / forecast: the chunks are used up, the frame is built
RangeReturn ==
    /\ r_pc = "loop"
    /\ r_fam \in {"generation", "forecast"}
    /\ ~(r_cur < r_end)
    /\ r_pc' = "done"
    /\ r_out' = IF r_frames = << >> THEN "empty" ELSE "frame"
    /\ UNCHANGED <<r_fam, r_start, r_end, r_paginate, r_total, r_cur, r_reqs, r_frames>>
    /\ UNCHANGED notRange

\* flows: the single request of get_range
RangeFlows ==
    /\ r_pc = "loop"
    /\ r_fam = "flows"
    /\ r_reqs' = Append(r_reqs, <<r_start, r_end>>)
    /\ r_pc' = "done"
    /\ \E outcome \in FetchOutcomes :
         /\ r_out' = CASE outcome = "error" -> "raised"
                       [] outcome = "rows" -> "frame"
                       [] outcome = "empty" -> "empty"
         /\ r_frames' = IF outcome = "rows" THEN <<1>> ELSE << >>
    /\ UNCHANGED <<r_fam, r_start, r_end, r_paginate, r_total, r_cur>>
    /\ UNCHANGED notRange

\* prices: one pass of `while True` in get_prices_range
RangePage ==
    /\ r_pc = "loop"
    /\ r_fam = "prices"
    /\ r_reqs' = Append(r_reqs, <<r_start, r_end, IF r_paginate THEN r_cur ELSE 0>>)
    /\ \E ok \in BOOLEAN :
         LET n == PageAt(r_total, IF r_paginate THEN r_cur ELSE 0) IN
         IF ~ok
         THEN \* _request_with_retries gave None, or _parse_a44 raised
              r_pc' = "done" /\ r_out' = "raised" /\ UNCHANGED <<r_cur, r_frames>>
         ELSE IF n = 0
         THEN \* if not records: break
              /\ r_pc' = "done"
              /\ r_out' = IF r_frames = << >> THEN "empty" ELSE "frame"
              /\ UNCHANGED <<r_cur, r_frames>>
         ELSE /\ r_frames' = Append(r_frames, n)
              /\ IF ~r_paginate
                 THEN r_pc' = "done" /\ r_out' = "frame" /\ UNCHANGED r_cur
                 ELSE r_cur' = r_cur + OffsetStep /\ UNCHANGED <<r_pc, r_out>>
    /\ UNCHANGED <<r_fam, r_start, r_end, r_paginate, r_total>>
    /\ UNCHANGED notRange

NextRange == RangeCall \/ RangeChunk \/ RangeReturn \/ RangeFlows \/ RangePage

(***************************************************************************)
(* The ISO 8601 duration codec: _iso8601_duration_to_minutes (generation,  *)
(* prices, flows) and _iso_duration_to_minutes (generation_res)            *)
(***************************************************************************)

\* int() raised ValueError
ValueError == -1
NotDecoded == -2

DigitChars == {"0", "1", "2", "3", "4", "5", "6", "7", "8", "9"}
DigitVal(c) ==
    CASE c = "0" -> 0 [] c = "1" -> 1 [] c = "2" -> 2 [] c = "3" -> 3 [] c = "4" -> 4
      [] c = "5" -> 5 [] c = "6" -> 6 [] c = "7" -> 7 [] c = "8" -> 8 [] c = "9" -> 9

\* c in s
Contains(s, c) == \E i \in 1..Len(s) : s[i] = c
IndexOf(s, c) == CHOOSE i \in 1..Len(s) : s[i] = c /\ \A j \in 1..(i - 1) : s[j] # c
\* s.split(c)[0]
Before(s, c) == IF Contains(s, c) THEN SubSeq(s, 1, IndexOf(s, c) - 1) ELSE s
\* s.split(c, 1)[1]
After(s, c) == SubSeq(s, IndexOf(s, c) + 1, Len(s))
\* s.replace(c, "")
Remove(s, c) == SelectSeq(s, LAMBDA x : x # c)

RECURSIVE Decimal(_)
Decimal(s) == IF s = << >> THEN 0 ELSE 10 * Decimal(SubSeq(s, 1, Len(s) - 1)) + DigitVal(s[Len(s)])

\* int(x or 0)
IntOrZero(s) ==
    IF s = << >> THEN 0
    ELSE IF \A i \in 1..Len(s) : s[i] \in DigitChars THEN Decimal(s)
    ELSE ValueError

\* the copies of prices and flows wrap every int() in try/except and use 0
CodecCopies == {"generation", "prices", "flows", "renewable"}
Lenient(copy) == copy \in {"prices", "flows"}
Field(copy, s) ==
    IF IntOrZero(s) = ValueError /\ Lenient(copy) THEN 0 ELSE IntOrZero(s)

DatePart(s) == IF Contains(s, "T") THEN Before(s, "T") ELSE s
TimePart(s) == IF Contains(s, "T") THEN After(s, "T") ELSE << >>
DaysOf(copy, s) ==
    IF Contains(DatePart(s), "D")
    THEN Field(copy, Before(Remove(DatePart(s), "P"), "D")) ELSE 0
HoursOf(copy, s) ==
    IF Contains(TimePart(s), "H") THEN Field(copy, Before(TimePart(s), "H")) ELSE 0
\* time_part after the hours were taken out
TimeRest(s) == IF Contains(TimePart(s), "H") THEN After(TimePart(s), "H") ELSE TimePart(s)
MinutesOf(copy, s) ==
    IF Contains(TimeRest(s), "M") THEN Field(copy, Before(TimeRest(s), "M")) ELSE 0

DurationToMinutes(copy, s) ==
    IF s = << >> \/ s[1] # "P" THEN 0
    ELSE IF ValueError \in {DaysOf(copy, s), HoursOf(copy, s), MinutesOf(copy, s)}
    THEN ValueError
    ELSE DaysOf(copy, s) * 1440 + HoursOf(copy, s) * 60 + MinutesOf(copy, s)

\* ---- the durations the codec is applied to ----
NoField == <<"-">>
\* the number written in front of a unit letter: a decimal, nothing, or junk
FieldTexts == {<<"1">>, <<"1", "5">>, <<"3", "0">>, << >>, <<"x">>, <<"1", ".", "5">>}
Opt(S) == S \cup {NoField}
DurationFields ==
    [Y : Opt({<<"1">>}), D : Opt(FieldTexts), H : Opt(FieldTexts),
     M : Opt(FieldTexts), S : Opt({<<"3", "0">>})]
Unit(text, letter) == IF text = NoField THEN << >> ELSE text \o <<letter>>
Render(f) ==
    <<"P">> \o Unit(f.Y, "Y") \o Unit(f.D, "D")
      \o (IF f.H = NoField /\ f.M = NoField /\ f.S = NoField THEN << >>
          ELSE <<"T">> \o Unit(f.H, "H") \o Unit(f.M, "M") \o Unit(f.S, "S"))
\* strings that are no duration at all
NonDurations == {<< >>, <<"1", "5", "M">>, <<"b", "o", "g", "u", "s">>, <<"P", "T">>}
DurationInputs == {Render(f) : f \in DurationFields} \cup NonDurations

CodecIdle ==
    /\ d_copy = "none"
    /\ d_in = << >>
    /\ d_out = NotDecoded

\* one call of the codec
Decode ==
    /\ d_copy = "none"
    /\ \E copy \in CodecCopies, s \in DurationInputs :
         /\ d_copy' = copy
         /\ d_in' = s
         /\ d_out' = DurationToMinutes(copy, s)
    /\ UNCHANGED notCodec

\* the result is dropped; the codec can be called again
DecodeReturn ==
    /\ d_copy # "none"
    /\ d_copy' = "none"
    /\ d_in' = << >>
    /\ d_out' = NotDecoded
    /\ UNCHANGED notCodec

NextCodec == Decode \/ DecodeReturn

(***************************************************************************)
(* Point expansion: the TimeSeries / Period / Point loops of _parse_a68,   *)
(* _parse_a75 (A75 and A71), _parse_a69, _parse_a44 and _parse_a11         *)
(***************************************************************************)

MaxSeries == 2
MaxPeriods == 2
\* positions are 1 .. MaxPos
MaxPos == 3

B19 == 19
PT15M == <<"P", "T", "1", "5", "M">>
PT60M == <<"P", "T", "6", "0", "M">>
\* a <resolution> element: missing, or its text (which may be empty or junk)
NoResolution == <<"absent">>
ResolutionTexts == {<< >>, PT15M, PT60M, <<"b", "o", "g", "u", "s">>, <<"P", "T", "x", "M">>}
ResolutionChoices == ResolutionTexts \cup {NoResolution}

\* documents that vary the resolutions: one series, periods starting at 0
ResPeriods == [start : {0}, res : ResolutionChoices, pts : {<<1>>, <<MaxPos>>}]
ResSeries == [cat : {B16}, res : ResolutionChoices,
              periods : SeqsUpTo(ResPeriods, MaxPeriods) \ {<< >>}]
\* documents that vary the order: several series, points in any order
OrderPeriods == [start : {0, 60}, res : {PT60M},
                 pts : {<<1>>, <<1, 2>>, <<2, 1>>, <<1, 1>>}]
OrderSeries == [cat : {NoPsr, B16, B19}, res : {NoResolution},
                periods : {<<p>> : p \in OrderPeriods}]
ExpandDocuments ==
    {<<sr>> : sr \in ResSeries} \cup (SeqsUpTo(OrderSeries, MaxSeries) \ {<< >>})

Parsers == {"a68", "a75", "a69", "a44", "a11"}

\* findtext(path, default=...): the element's text, "" for an empty element
TextOr(el, default) == IF el = NoResolution THEN default ELSE el
OrElse(a, b) == IF a # << >> THEN a ELSE b

\* _parse_a75: period.findtext(resolution, default=ts_resolution) or "PT60M"
A75Resolution(sr, pd) == OrElse(TextOr(pd.res, TextOr(sr.res, << >>)), PT60M)
\* _parse_a69: (resolution or ts_resolution or "PT60M").strip()
A69Resolution(sr, pd) ==
    Strip(OrElse(TextOr(pd.res, TextOr(sr.res, << >>)), OrElse(TextOr(sr.res, << >>), PT60M)))
\* _parse_a44: period.findtext(resolution, default="") or ""
A44Resolution(sr, pd) == TextOr(pd.res, << >>)

\* _parse_a11, the search by local name over period.iter() and then s.iter()
FirstPeriodWithRes(sr) ==
    IF \E i \in 1..Len(sr.periods) : sr.periods[i].res # NoResolution
    THEN sr.periods[CHOOSE i \in 1..Len(sr.periods) :
                      /\ sr.periods[i].res # NoResolution
                      /\ \A j \in 1..(i - 1) : sr.periods[j].res = NoResolution].res
    ELSE NoResolution
\* _parse_a11: res_el = period.find(resolution) or s.find(resolution); a
\* childless Element is false, so the right operand is always the result
A11ResElement(sr, pd) ==
    IF sr.res # NoResolution THEN sr.res
    ELSE IF pd.res # NoResolution THEN pd.res
    ELSE FirstPeriodWithRes(sr)
\* res_el.text.strip() if res_el is not None and res_el.text else "PT15M"
A11Resolution(sr, pd) ==
    IF A11ResElement(sr, pd) # NoResolution /\ A11ResElement(sr, pd) # << >>
    THEN Strip(A11ResElement(sr, pd)) ELSE PT15M

ResolutionOf(fam, sr, pd) ==
    CASE fam = "a75" -> A75Resolution(sr, pd)
      [] fam = "a69" -> A69Resolution(sr, pd)
      [] fam = "a44" -> A44Resolution(sr, pd)
      [] fam = "a11" -> A11Resolution(sr, pd)
      [] fam = "a68" -> << >>

CodecOfParser(fam) ==
    CASE fam = "a75" -> "generation"
      [] fam = "a69" -> "renewable"
      [] fam = "a44" -> "prices"
      [] fam = "a11" -> "flows"
      [] fam = "a68" -> "generation"

\* _iso8601_duration_to_minutes(resolution) or 60 (15 in _parse_a11)
FallbackStep(fam) == IF fam = "a11" THEN 15 ELSE 60
StepMinutes(fam, sr, pd) ==
    LET m == DurationToMinutes(CodecOfParser(fam), ResolutionOf(fam, sr, pd)) IN
    IF fam = "a68" THEN 0
    ELSE IF m = ValueError THEN ValueError
    ELSE IF m = 0 THEN FallbackStep(fam) ELSE m

\* the "resolution" field written into the record
RecordedResolution(fam, sr, pd) ==
    IF fam = "a44" THEN OrElse(A44Resolution(sr, pd), PT60M) ELSE ResolutionOf(fam, sr, pd)

\* One record per point. ts, cat and res are the record's fields; start, pos,
\* pres and sres remember the point, the period and the series it came from.
RecordsOfPeriod(fam, sr, pd) ==
    [i \in 1..Len(pd.pts) |->
        [ts |-> pd.start + (pd.pts[i] - 1) * StepMinutes(fam, sr, pd),
         cat |-> sr.cat,
         res |-> RecordedResolution(fam, sr, pd),
         start |-> pd.start, pos |-> pd.pts[i], pres |-> pd.res, sres |-> sr.res]]
RecordsOfSeries(fam, sr) ==
    Concat([j \in 1..Len(sr.periods) |-> RecordsOfPeriod(fam, sr, sr.periods[j])])
RecordsOfDocument(fam, doc) ==
    Concat([k \in 1..Len(doc) |-> RecordsOfSeries(fam, doc[k])])

\* the key of rows.sort / records.sort of each parser
ParserKeyLess(fam, a, b) ==
    CASE fam \in {"a68", "a75", "a11"} -> a.ts < b.ts \/ (a.ts = b.ts /\ a.cat < b.cat)
      [] fam = "a44" -> a.ts < b.ts
      [] fam = "a69" -> a.cat < b.cat \/ (a.cat = b.cat /\ a.ts < b.ts)

RECURSIVE ParserInsert(_, _, _)
ParserInsert(fam, s, x) ==
    IF s = << >> THEN <<x>>
    ELSE IF ParserKeyLess(fam, x, s[Len(s)])
         THEN Append(ParserInsert(fam, SubSeq(s, 1, Len(s) - 1), x), s[Len(s)])
         ELSE Append(s, x)
\* list.sort(key=...): stable
RECURSIVE ParserSort(_, _)
ParserSort(fam, s) ==
    IF s = << >> THEN << >>
    ELSE ParserInsert(fam, ParserSort(fam, SubSeq(s, 1, Len(s) - 1)), s[Len(s)])

NotExpanded == <<[parsed |-> FALSE]>>
ExpandRaised == <<[raised |-> "ValueError"]>>
\* int() inside the codec raises out of the parser
CodecRaises(fam, doc) ==
    \E k \in 1..Len(doc) : \E j \in 1..Len(doc[k].periods) :
        StepMinutes(fam, doc[k], doc[k].periods[j]) = ValueError
ParsePoints(fam, doc) ==
    IF CodecRaises(fam, doc) THEN ExpandRaised
    ELSE ParserSort(fam, RecordsOfDocument(fam, doc))

ExpandIdle ==
    /\ x_fam = "none"
    /\ x_doc = << >>
    /\ x_out = NotExpanded

\* one call of a parser on a document
ExpandParse ==
    /\ x_fam = "none"
    /\ \E fam \in Parsers, doc \in ExpandDocuments :
         /\ x_fam' = fam
         /\ x_doc' = doc
         /\ x_out' = ParsePoints(fam, doc)
    /\ UNCHANGED notExpand

\* the caller is done with the records
ExpandDone ==
    /\ x_fam # "none"
    /\ x_fam' = "none"
    /\ x_doc' = << >>
    /\ x_out' = NotExpanded
    /\ UNCHANGED notExpand

NextExpand == ExpandParse \/ ExpandDone

(***************************************************************************)
(* fetch_flows: _build_neighbor_iso_edges, _expand_iso_pairs_to_eic_pairs  *)
(* and _dedupe_pairs                                                       *)
(***************************************************************************)

\* ISO codes are 1 .. NumIso, in alphabetical order
NumIso == 3
\* most countries given in --countries
MaxSelected == 2
IsoCodes == 1..NumIso

Range(q) == {q[i] : i \in 1..Len(q)}

\* [n for n in sorted(neigh) if n in country_to_eics and n != src]
ValidNeighbors(src, neigh, mapped) ==
    SelectSeq(SortedSeq(neigh), LAMBDA n : n \in mapped /\ n # src)

EdgesOfSource_OneWay(src, valid) == [i \in 1..Len(valid) |-> <<src, valid[i]>>]
\* extend((src, n) for n in valid_neigh); extend((n, src) for n in valid_neigh)
EdgesOfSource(src, valid) ==
    [i \in 1..Len(valid) |-> <<src, valid[i]>>] \o [i \in 1..Len(valid) |-> <<valid[i], src>>]

\* neighbors_map.get(src, set())
NeighborsOf(neigh, src) == IF src \in DOMAIN neigh THEN neigh[src] ELSE {}

\* The configured neighbours of a country: any set of other countries, or
\* (a map that names the country itself) every country.
NeighborSets(src) == (SUBSET (IsoCodes \ {src})) \cup {IsoCodes}
NeighborMaps(sel) == {f \in [sel -> SUBSET IsoCodes] : \A c \in sel : f[c] \in NeighborSets(c)}

\* _build_neighbor_iso_edges, the loop over iso_list from position i on
RECURSIVE BuildEdgesFrom(_, _, _, _, _)
BuildEdgesFrom(iso, neigh, mapped, i, acc) ==
    IF i > Len(iso) THEN acc
    ELSE LET src == iso[i]
             ng == NeighborsOf(neigh, src)
             valid == ValidNeighbors(src, ng, mapped)
         IN IF ng = {}
            THEN BuildEdgesFrom(iso, neigh, mapped, i + 1,
                    [acc EXCEPT !.missing = Append(@, src),
                                !.counts = (src :> 0) @@ @])
            ELSE BuildEdgesFrom(iso, neigh, mapped, i + 1,
                    [acc EXCEPT !.skipped = @ \cup (ng \ mapped),
                                !.counts = (src :> Len(valid)) @@ @,
                                !.edges = @ \o EdgesOfSource(src, valid)])

BuildNeighborIsoEdges(iso, neigh, mapped) ==
    BuildEdgesFrom(iso, neigh, mapped, 1,
        [edges |-> << >>, missing |-> << >>, skipped |-> {}, counts |-> << >>])

\* for o in out_eics: for i in in_eics: eic_pairs.append((o, i))
PairsOfEdge(e) ==
    Concat([a \in 1..Len(ZonesOf(e[1])) |->
              [b \in 1..Len(ZonesOf(e[2])) |-> <<ZonesOf(e[1])[a], ZonesOf(e[2])[b]>>]])

DedupePairs_None(q) == q
\* _dedupe_pairs: the first of every pair, in order
DedupePairs(q) ==
    SelectIdx(q, {i \in 1..Len(q) : \A j \in 1..(i - 1) : q[j] # q[i]}, 1)

ExpandIsoPairsToEicPairs(edges) ==
    DedupePairs(Concat([k \in 1..Len(edges) |-> PairsOfEdge(edges[k])]))

GraphIdle ==
    /\ g_pc = "idle"
    /\ g_iso = << >>
    /\ g_mapped = {}
    /\ g_neigh = << >>
    /\ g_edges = << >>
    /\ g_missing = << >>
    /\ g_skipped = {}
    /\ g_counts = << >>
    /\ g_pairs = << >>

\* handle(): the countries pass _validate_countries (all are mapped), then
\* _build_neighbor_iso_edges runs
BuildEdges ==
    /\ g_pc = "idle"
    /\ \E mapped \in SUBSET IsoCodes :
         \E iso \in SeqsUpTo(mapped, MaxSelected) :
           \E neigh \in NeighborMaps(Range(iso)) :
             LET built == BuildNeighborIsoEdges(iso, neigh, mapped) IN
             /\ g_mapped' = mapped
             /\ g_iso' = iso
             /\ g_neigh' = neigh
             /\ g_edges' = built.edges
             /\ g_missing' = built.missing
             /\ g_skipped' = built.skipped
             /\ g_counts' = built.counts
    /\ g_pc' = "edges"
    /\ UNCHANGED g_pairs
    /\ UNCHANGED notGraph

\* handle(): eic_pairs = _expand_iso_pairs_to_eic_pairs(pair_iso_edges, ...)
ExpandPairs ==
    /\ g_pc = "edges"
    /\ g_pairs' = ExpandIsoPairsToEicPairs(g_edges)
    /\ g_pc' = "pairs"
    /\ UNCHANGED <<g_iso, g_mapped, g_neigh, g_edges, g_missing, g_skipped, g_counts>>
    /\ UNCHANGED notGraph

\* handle(): if not eic_pairs: raise CommandError("No EIC pairs found ...")
NoEicPairs ==
    /\ g_pc = "pairs"
    /\ g_pairs = << >>
    /\ g_pc' = "CommandError"
    /\ UNCHANGED <<g_iso, g_mapped, g_neigh, g_edges, g_missing, g_skipped, g_counts, g_pairs>>
    /\ UNCHANGED notGraph

\* handle(): _summarize_neighbors(...) prints the warnings and the counts and
\* the command goes on to the dry-run sample or the fetch
SummarizeNeighbors ==
    /\ g_pc = "pairs"
    /\ g_pairs # << >>
    /\ g_pc' = "summarized"
    /\ UNCHANGED <<g_iso, g_mapped, g_neigh, g_edges, g_missing, g_skipped, g_counts, g_pairs>>
    /\ UNCHANGED notGraph

NextGraph == BuildEdges \/ ExpandPairs \/ NoEicPairs \/ SummarizeNeighbors

(***************************************************************************)
(* Persistence: the save functions of helper.py and the Country lookups    *)
(* of save_flows_df                                                        *)
(***************************************************************************)
\* most records in one submitted frame
MaxFrame == 2

StoreFamilies == {"capacity", "generation", "forecast", "renewable", "prices", "flows"}
StoreIsos == {"AA", "BB"}
StoreVals == {1, 2}
\* None: a null foreign key, a zone the mapping does not know
NoCountry == "None"
\* the table has no such column
NotApplicable == "-"

\* _eic_to_country_iso_map(): zone zA belongs to AA and zB to BB; zU is in
\* no mapping
EicToCountryIsoMap == [z \in {"zA", "zB"} |-> IF z = "zA" THEN "AA" ELSE "BB"]

EicToIsoGet_Default(z) ==
    IF z \in DOMAIN EicToCountryIsoMap THEN EicToCountryIsoMap[z] ELSE "AA"
\* _eic_to_country_iso_map().get(eic)
EicToIsoGet(z) ==
    IF z \in DOMAIN EicToCountryIsoMap THEN EicToCountryIsoMap[z] ELSE NoCountry

\* What a frame row names: a country (aggregated frames), a zone (per-zone
\* A69 rows) or an (out, in) zone pair (flows).
StoreEntities(fam) ==
    IF fam = "flows" THEN {<<"zA", "zU">>, <<"zU", "zB">>}
    ELSE IF fam = "renewable" THEN {<<"zA">>, <<"zU">>}
    ELSE {<<c>> : c \in StoreIsos}

\* psr_type, or contract_type for prices
StoreCategory(fam) ==
    IF fam = "prices" THEN "A01" ELSE IF fam = "flows" THEN NotApplicable ELSE "B16"

FrameRecords(fam) ==
    {[ent |-> e, cat |-> StoreCategory(fam), ts |-> "t1", val |-> v] :
        e \in StoreEntities(fam), v \in StoreVals}

\* df.to_dict(orient="records"): the rows of a frame in order
StoreFrames(fam) == SeqsUpTo(FrameRecords(fam), MaxFrame)

MinOf(S) == CHOOSE x \in S : \A y \in S : x <= y
MaxOf(S) == CHOOSE x \in S : \A y \in S : x >= y

\* Model.objects.update_or_create(<key>, defaults=...): the row with the key
\* is updated, or created when there is none
UpdateOrCreate(table, row) == {r \in table : r.key # row.key} \cup {row}

\* _get_or_create_country
GetOrCreateCountry(countries, iso) == countries \cup {iso}

CountryRow(iso, r) ==
    [key |-> <<iso, r.cat, r.ts>>, val |-> r.val,
     country_from |-> NotApplicable, country_to |-> NotApplicable]

\* save_capacity_df, save_generation_df, save_generation_forecast_df and the
\* loop of save_generation_res_df, from row i on
RECURSIVE SaveCountryRows(_, _, _)
SaveCountryRows(frame, i, st) ==
    IF i > Len(frame) THEN st
    ELSE LET r == frame[i]
         IN SaveCountryRows(frame, i + 1,
                [st EXCEPT !.countries = GetOrCreateCountry(@, r.ent[1]),
                           !.table = UpdateOrCreate(@, CountryRow(r.ent[1], r))])

\* df["country"] = df["zone"].map(eic_to_iso.get); df = df[df["country"].notna()]
ResWithCountry(frame) ==
    [i \in 1..Len(frame) |-> [frame[i] EXCEPT !.ent = <<EicToIsoGet(frame[i].ent[1])>>]]
SaveGenerationResDf(frame, st) ==
    SaveCountryRows(SelectSeq(ResWithCountry(frame), LAMBDA r : r.ent[1] # NoCountry), 1, st)

PriceKey(r) == <<r.ent[1], r.cat, r.ts>>

\* save_country_prices_df: the keys already stored are updated through
\* existing_map (one object per key, so the last row of the frame sets its
\* fields), the others go to bulk_create(ignore_conflicts=True), which keeps
\* the first row inserted for a key
SaveCountryPricesDf(frame, st) ==
    LET keys == {PriceKey(frame[i]) : i \in 1..Len(frame)}
        existing == {row.key : row \in st.table} \cap keys
        idx(k) == {i \in 1..Len(frame) : PriceKey(frame[i]) = k}
        to_update == {IF row.key \in existing
                      THEN [row EXCEPT !.val = frame[MaxOf(idx(row.key))].val]
                      ELSE row : row \in st.table}
        to_create == {CountryRow(k[1], frame[MinOf(idx(k))]) : k \in keys \ existing}
    IN [st EXCEPT !.countries = @ \cup {k[1] : k \in keys},
                  !.table = to_update \cup to_create]

\* _country_by_iso under lru_cache(maxsize=None): the first answer for an
\* iso code, None included, is the answer of every later call
CountryByIso(cache, countries, iso) ==
    IF iso \in DOMAIN cache THEN cache[iso]
    ELSE IF iso \in countries THEN iso ELSE NoCountry

\* _map_eic_to_country
MapEicToCountry(cache, countries, eic) ==
    IF EicToIsoGet(eic) = NoCountry THEN NoCountry
    ELSE CountryByIso(cache, countries, EicToIsoGet(eic))

\* the cache after _map_eic_to_country(eic)
CacheAfter(cache, countries, eic) ==
    IF EicToIsoGet(eic) = NoCountry \/ EicToIsoGet(eic) \in DOMAIN cache THEN cache
    ELSE (EicToIsoGet(eic) :> CountryByIso(cache, countries, EicToIsoGet(eic))) @@ cache

\* save_flows_df: the loop over the records, from row i on
RECURSIVE SaveFlowRows(_, _, _)
SaveFlowRows(frame, i, st) ==
    IF i > Len(frame) THEN st
    ELSE LET r == frame[i]
             c_from == MapEicToCountry(st.cache, st.countries, r.ent[1])
             cache1 == CacheAfter(st.cache, st.countries, r.ent[1])
             c_to == MapEicToCountry(cache1, st.countries, r.ent[2])
             cache2 == CacheAfter(cache1, st.countries, r.ent[2])
         IN SaveFlowRows(frame, i + 1,
                [st EXCEPT !.cache = cache2,
                           !.table = UpdateOrCreate(@,
                               [key |-> <<r.ts, r.ent[1], r.ent[2]>>, val |-> r.val,
                                country_from |-> c_from, country_to |-> c_to])])

\* one call of the family's save function; an empty frame returns 0 at once
SaveDf(fam, frame, st) ==
    IF frame = << >> THEN st
    ELSE IF fam = "flows" THEN SaveFlowRows(frame, 1, st)
    ELSE IF fam = "prices" THEN SaveCountryPricesDf(frame, st)
    ELSE IF fam = "renewable" THEN SaveGenerationResDf(frame, st)
    ELSE SaveCountryRows(frame, 1, st)

StoreState == [table |-> s_table, countries |-> s_countries, cache |-> s_cache]

StoreIdle ==
    /\ s_pc = "idle"
    /\ s_fam = "none"
    /\ s_countries = {}
    /\ s_cache = << >>
    /\ s_table = {}
    /\ s_saved = << >>
    /\ s_first = {}
    /\ s_at = {}

\* sync_countries, or any other writer of the Country table
CreateCountry ==
    /\ s_pc \in {"idle", "saved"}
    /\ \E iso \in StoreIsos \ s_countries : s_countries' = s_countries \cup {iso}
    /\ UNCHANGED <<s_pc, s_fam, s_cache, s_table, s_saved, s_first, s_at>>
    /\ UNCHANGED notStore

\* the first submission of a frame
StoreSave ==
    /\ s_pc = "idle"
    /\ \E fam \in StoreFamilies :
         \E frame \in StoreFrames(fam) :
           LET st == SaveDf(fam, frame, StoreState) IN
           /\ s_fam' = fam
           /\ s_saved' = <<frame>>
           /\ s_table' = st.table
           /\ s_countries' = st.countries
           /\ s_cache' = st.cache
           /\ s_first' = st.table
    /\ s_at' = s_countries
    /\ s_pc' = "saved"
    /\ UNCHANGED notStore

\* the same frame is submitted a second time
StoreSaveAgain ==
    /\ s_pc = "saved"
    /\ LET st == SaveDf(s_fam, s_saved[1], StoreState) IN
       /\ s_table' = st.table
       /\ s_countries' = st.countries
       /\ s_cache' = st.cache
    /\ s_saved' = Append(s_saved, s_saved[1])
    /\ s_at' = s_countries
    /\ s_pc' = "resubmitted"
    /\ UNCHANGED <<s_fam, s_first>>
    /\ UNCHANGED notStore

\* a later frame is submitted to the same save function
StoreSaveNext ==
    /\ s_pc = "saved"
    /\ \E frame \in StoreFrames(s_fam) :
         LET st == SaveDf(s_fam, frame, StoreState) IN
         /\ s_saved' = Append(s_saved, frame)
         /\ s_table' = st.table
         /\ s_countries' = st.countries
         /\ s_cache' = st.cache
    /\ s_at' = s_countries
    /\ s_pc' = "next"
    /\ UNCHANGED <<s_fam, s_first>>
    /\ UNCHANGED notStore

NextStore == CreateCountry \/ StoreSave \/ StoreSaveAgain \/ StoreSaveNext

(***************************************************************************)
(* views.py: validation of the requested country codes                     *)
(***************************************************************************)
\* most codes in one request
MaxCodes == 3

\* Country codes in alphabetical order; BlankCode is the empty string
BlankCode == 0
ViewCodes == {1, 2, 3}

\* Country.objects.filter(pk__in=codes).values_list("pk", flat=True), in
\* primary-key order
CountryFilter(codes, store) == SortedSeq(codes \cap store)

\* _validate_countries_or_400
ValidateCountriesOr400(codes, store) ==
    LET asked == {codes[i] : i \in 1..Len(codes)} \ {BlankCode}
        valid == CountryFilter(asked, store)
        missing == SortedSeq(asked \ {valid[i] : i \in 1..Len(valid)})
    IN IF missing # << >>
       THEN [raised |-> "ValueError", valid |-> << >>, missing |-> missing]
       ELSE [raised |-> "no", valid |-> valid, missing |-> << >>]

ViewIdle ==
    /\ v_pc = "idle"
    /\ v_codes = << >>
    /\ v_store = {}
    /\ v_out = [raised |-> "no", valid |-> << >>, missing |-> << >>]

\* a view validates the codes of its request against the Country table
ValidateCountries ==
    /\ v_pc = "idle"
    /\ \E codes \in SeqsUpTo(ViewCodes \cup {BlankCode}, MaxCodes), store \in SUBSET ViewCodes :
         /\ v_codes' = codes
         /\ v_store' = store
         /\ v_out' = ValidateCountriesOr400(codes, store)
    /\ v_pc' = "done"
    /\ UNCHANGED notView

NextView == ValidateCountries

(***************************************************************************)
(* Bound alignment: _floor_to_step, _utc_floor_hour,                       *)
(* _parse_iso_utc_floor_hour, _parse_iso_utc, and the explicit --start /   *)
(* --end window of fetch_generation, fetch_generation_forecast, fetch_flows *)
(***************************************************************************)
\* wall-clock minutes the datetimes range over, from the start of day 1
MaxMinute == 61
\* most parts in one string
MaxTokens == 4

MinutesPerDay == 24 * 60
\* tzinfo is None
Naive == 100000

\* A datetime: wall-clock minutes t since day 0, the part below the minute
\* s (seconds), and the UTC offset in minutes (or Naive).
UtcOffsets == {0, 330, -60}
SubMinute == {0, 59}
AwareDateTimes ==
    {[t |-> MinutesPerDay + m, s |-> s, off |-> o] :
        m \in 0..MaxMinute, s \in SubMinute, o \in UtcOffsets}
DateTimes ==
    AwareDateTimes \cup
    {[t |-> MinutesPerDay + m, s |-> s, off |-> Naive] : m \in 0..MaxMinute, s \in SubMinute}

\* d.astimezone(dt.timezone.utc), for an aware d
AsTimezoneUtc(d) == [t |-> d.t - d.off, s |-> d.s, off |-> 0]

\* _ensure_utc
EnsureUtc(d) == AsTimezoneUtc(IF d.off = Naive THEN [d EXCEPT !.off = 0] ELSE d)

FloorToStep_Hour(d, minutes) ==
    [t |-> (d.t - d.off) - ((d.t - d.off) % 60), s |-> 0, off |-> 0]
\* _floor_to_step: d.minute is t % 60
FloorToStep(d, minutes) ==
    [t |-> (d.t - d.off) - (((d.t - d.off) % 60) % minutes), s |-> 0, off |-> 0]

\* _utc_floor_hour (views.py and fetch_prices.py)
UtcFloorHour(d) == [EnsureUtc(d) EXCEPT !.t = @ - (@ % 60), !.s = 0]

\* A string is the sequence of its parts: a date "2026-02-09" (a: the day),
\* a time "T22:30:10" (a: minute of the day, b: seconds), a fraction ".000",
\* an offset "+05:30" (a: minutes), the letter "Z", or other text.
IsoDate == [k |-> "date", a |-> 1, b |-> 0]
IsoTime(m, s) == [k |-> "time", a |-> m, b |-> s]
IsoFrac == [k |-> "frac", a |-> 0, b |-> 0]
IsoOffset == [k |-> "offset", a |-> 330, b |-> 0]
IsoZ == [k |-> "Z", a |-> 0, b |-> 0]
IsoText == [k |-> "text", a |-> 0, b |-> 0]
IsoTimes == {IsoTime(0, 0), IsoTime(14, 59), IsoTime(15, 0), IsoTime(1350, 10)}
IsoTokens == {IsoDate, IsoFrac, IsoOffset, IsoZ, IsoText} \cup IsoTimes

\* s.rstrip("Z")
RECURSIVE RStripZ(_)
RStripZ(q) ==
    IF q # << >> /\ q[Len(q)] = IsoZ THEN RStripZ(SubSeq(q, 1, Len(q) - 1)) ELSE q

Kinds(q) == [i \in 1..Len(q) |-> q[i].k]
NotADate == [ok |-> FALSE, t |-> 0, s |-> 0, off |-> 0]

\* dt.datetime.fromisoformat: a date, optionally followed by a time, a
\* fraction and an offset; anything else raises ValueError
FromIsoFormat(q) ==
    IF Kinds(q) = <<"date">>
    THEN [ok |-> TRUE, t |-> q[1].a * MinutesPerDay, s |-> 0, off |-> Naive]
    ELSE IF Kinds(q) \in {<<"date", "time">>, <<"date", "time", "frac">>}
    THEN [ok |-> TRUE, t |-> q[1].a * MinutesPerDay + q[2].a, s |-> q[2].b, off |-> Naive]
    ELSE IF Kinds(q) \in {<<"date", "time", "offset">>, <<"date", "time", "frac", "offset">>}
    THEN [ok |-> TRUE, t |-> q[1].a * MinutesPerDay + q[2].a, s |-> q[2].b,
          off |-> q[Len(q)].a]
    ELSE IF Kinds(q) = <<"date", "offset">>
    THEN \* any one character separates date and time: "+05:30" reads as 05:30
         [ok |-> TRUE, t |-> q[1].a * MinutesPerDay + q[2].a, s |-> 0, off |-> Naive]
    ELSE NotADate

DateTimeOf(p) == [t |-> p.t, s |-> p.s, off |-> p.off]
NoTime == [t |-> 0, s |-> 0, off |-> 0]
Instant(d) == (d.t - (IF d.off = Naive THEN 0 ELSE d.off)) * 60 + d.s

\* _parse_iso_utc_floor_hour (views.py and fetch_prices.py)
ParseIsoUtcFloorHour(q) ==
    LET p == FromIsoFormat(RStripZ(q))
    IN IF p.ok THEN [raised |-> "no", at |-> UtcFloorHour(DateTimeOf(p))]
       ELSE [raised |-> "ValueError", at |-> NoTime]

\* _parse_iso_utc of the commands
ParseIsoUtc(q) ==
    LET p == FromIsoFormat(RStripZ(q))
    IN IF q = << >> \/ ~p.ok THEN [raised |-> "ValueError", at |-> NoTime]
       ELSE [raised |-> "no", at |-> EnsureUtc(DateTimeOf(p))]

Window(raised, start, end) == [raised |-> raised, start |-> start, end |-> end]

\* fetch_generation and fetch_generation_forecast, handle() with --start and
\* --end: parse, compare, then floor both to the quarter-hour
GenerationWindow(so, eo) ==
    LET start == ParseIsoUtc(so)
        end == ParseIsoUtc(eo)
    IN IF start.raised # "no" \/ end.raised # "no" THEN Window("CommandError", NoTime, NoTime)
       ELSE IF Instant(start.at) >= Instant(end.at) THEN Window("CommandError", NoTime, NoTime)
       ELSE Window("no", FloorToStep(start.at, 15), FloorToStep(end.at, 15))

\* fetch_flows, _determine_time_window with --start and --end: parse and
\* floor, then compare
FlowsWindow(so, eo) ==
    LET start == ParseIsoUtc(so)
        end == ParseIsoUtc(eo)
    IN IF start.raised # "no" \/ end.raised # "no" THEN Window("CommandError", NoTime, NoTime)
       ELSE IF Instant(FloorToStep(start.at, 15)) >= Instant(FloorToStep(end.at, 15))
       THEN Window("CommandError", NoTime, NoTime)
       ELSE Window("no", FloorToStep(start.at, 15), FloorToStep(end.at, 15))

\* the values given to --start and --end
OptionStrings ==
    {<<IsoDate, t, IsoZ>> : t \in IsoTimes} \cup
    {<<IsoDate>>, <<IsoDate, IsoTime(15, 0), IsoOffset>>, <<IsoText>>}
WindowCommands == {"fetch_generation", "fetch_generation_forecast", "fetch_flows"}

WindowIdle ==
    /\ w_op = "none"
    /\ w_in = << >>
    /\ w_out = Window("no", NoTime, NoTime)

\* _floor_to_step(d, 15) on an aware datetime
CallFloorToStep ==
    /\ w_op = "none"
    /\ \E d \in AwareDateTimes :
         /\ w_in' = <<d>>
         /\ w_out' = Window("no", FloorToStep(d, 15), FloorToStep(d, 15))
    /\ w_op' = "_floor_to_step"
    /\ UNCHANGED notWindow

CallUtcFloorHour ==
    /\ w_op = "none"
    /\ \E d \in DateTimes :
         /\ w_in' = <<d>>
         /\ w_out' = Window("no", UtcFloorHour(d), UtcFloorHour(d))
    /\ w_op' = "_utc_floor_hour"
    /\ UNCHANGED notWindow

CallParseIsoUtcFloorHour ==
    /\ w_op = "none"
    /\ \E q \in SeqsUpTo(IsoTokens, MaxTokens) :
         LET r == ParseIsoUtcFloorHour(q) IN
         /\ w_in' = q
         /\ w_out' = Window(r.raised, r.at, r.at)
    /\ w_op' = "_parse_iso_utc_floor_hour"
    /\ UNCHANGED notWindow

\* handle() of a command called with --start and --end
CommandWindow ==
    /\ w_op = "none"
    /\ \E cmd \in WindowCommands, so \in OptionStrings, eo \in OptionStrings :
         /\ w_op' = cmd
         /\ w_in' = <<so, eo>>
         /\ w_out' = IF cmd = "fetch_flows" THEN FlowsWindow(so, eo)
                     ELSE GenerationWindow(so, eo)
    /\ UNCHANGED notWindow

NextWindow == CallFloorToStep \/ CallUtcFloorHour \/ CallParseIsoUtcFloorHour \/ CommandWindow

(***************************************************************************)
(* EntsoeInstalledCapacity.get_latest: the current year, else the previous *)
(***************************************************************************)
\* most records one A68 document parses to
MaxLatestRecs == 2

LatestYears == {2, 3}
LatestPsrs == {16, 19}
LatestVals == {100, 200}

\* _window_for_year: Dec 31 23:00Z of the year before to Dec 31 23:00Z of
\* the year, in half years
WindowForYear(year) == <<(year - 1) * 2, year * 2>>

\* timestamps a document answering a window can carry: from the window's
\* start to one tick past its end
WindowTimestamps(w) == w[1]..(w[2] + 1)

\* rows.sort(key=(datetime_utc, psr_type)) of _parse_a68
ParsedInOrder(q) ==
    \A i \in 1..(Len(q) - 1) :
       \/ q[i].ts < q[i + 1].ts
       \/ q[i].ts = q[i + 1].ts /\ q[i].psr <= q[i + 1].psr

\* what _query_a68_window can give for a window: records, or an exception
A68Responses(w) ==
    {[raised |-> TRUE, recs |-> << >>]} \cup
    {[raised |-> FALSE, recs |-> q] :
        q \in {r \in SeqsUpTo([psr : LatestPsrs, ts : WindowTimestamps(w), val : LatestVals],
                              MaxLatestRecs) : ParsedInOrder(r)}}

\* df[df["datetime_utc"] <= window_end]
UpToWindowEnd(recs, window_end) == SelectSeq(recs, LAMBDA r : r.ts <= window_end)

LatestOfPsr_First(recs, p) ==
    LET idx == {i \in 1..Len(recs) : recs[i].psr = p}
    IN recs[CHOOSE i \in idx : \A j \in idx : recs[i].ts <= recs[j].ts]
\* sort_values(["psr_type", "datetime_utc"]).groupby("psr_type").tail(1): the
\* sort is stable, so among equal timestamps the later record is the last
LatestOfPsr(recs, p) ==
    LET idx == {i \in 1..Len(recs) : recs[i].psr = p}
    IN recs[CHOOSE i \in idx :
              \A j \in idx : recs[j].ts < recs[i].ts \/ (recs[j].ts = recs[i].ts /\ j <= i)]

\* get_latest, lines 204-222: the frame returned for the records
LatestRows(recs, target_year, window_end) ==
    LET kept == UpToWindowEnd(recs, window_end)
        psrs == {kept[i].psr : i \in 1..Len(kept)}
        sorted == SortedSeq(psrs)
    IN [k \in 1..Len(sorted) |->
          [psr_type |-> sorted[k],
           valid_from_utc |-> LatestOfPsr(kept, sorted[k]).ts,
           installed_capacity_MW |-> LatestOfPsr(kept, sorted[k]).val,
           year |-> target_year]]

LatestIdle ==
    /\ l_pc = "idle"
    /\ l_now = 0
    /\ l_queries = << >>
    /\ l_resps = << >>
    /\ l_target = 0
    /\ l_out = [raised |-> FALSE, rows |-> << >>]

\* get_latest: the current year's window is queried
LatestProbe ==
    /\ l_pc = "idle"
    /\ \E y \in LatestYears :
         \E r \in A68Responses(WindowForYear(y)) :
           /\ l_now' = y
           /\ l_queries' = <<WindowForYear(y)>>
           /\ l_resps' = <<r>>
           /\ l_target' = IF ~r.raised /\ r.recs # << >> THEN y ELSE 0
           /\ l_pc' = IF r.raised THEN "done" ELSE IF r.recs # << >> THEN "select" ELSE "fallback"
           /\ l_out' = [raised |-> r.raised, rows |-> << >>]
    /\ UNCHANGED notLatest

\* records was empty: the previous year's window is queried
LatestFallBack ==
    /\ l_pc = "fallback"
    /\ \E r \in A68Responses(WindowForYear(l_now - 1)) :
         /\ l_queries' = Append(l_queries, WindowForYear(l_now - 1))
         /\ l_resps' = Append(l_resps, r)
         /\ l_pc' = IF r.raised THEN "done" ELSE "select"
         /\ l_out' = [raised |-> r.raised, rows |-> << >>]
    /\ l_target' = l_now - 1
    /\ UNCHANGED l_now
    /\ UNCHANGED notLatest

\* the frame is built from the records and returned
LatestSelect ==
    /\ l_pc = "select"
    /\ l_out' = [raised |-> FALSE,
                 rows |-> LatestRows(l_resps[Len(l_resps)].recs, l_target,
                                     WindowForYear(l_target)[2])]
    /\ l_pc' = "done"
    /\ UNCHANGED <<l_now, l_queries, l_resps, l_target>>
    /\ UNCHANGED notLatest

NextLatest == LatestProbe \/ LatestFallBack \/ LatestSelect

(***************************************************************************)
(* Specifications: every machine starts idle; each specification runs one  *)
(***************************************************************************)

Init == FetchIdle /\ ParseIdle /\ BatchIdle /\ AggIdle /\ ChunkIdle /\ RangeIdle /\ CodecIdle
        /\ ExpandIdle /\ GraphIdle /\ StoreIdle /\ ViewIdle /\ WindowIdle /\ LatestIdle

SpecFetch == Init /\ [][NextFetch]_vars

SpecParse == Init /\ [][NextParse]_vars

SpecBatch == Init /\ [][NextBatch]_vars

SpecAgg == Init /\ [][NextAgg]_vars

\* get_range drives the generator from a for loop whose body returns, so the
\* generator is always resumed
SpecChunk == Init /\ [][NextChunk]_vars /\ WF_vars(NextChunk)

SpecRange == Init /\ [][NextRange]_vars

SpecCodec == Init /\ [][NextCodec]_vars

SpecExpand == Init /\ [][NextExpand]_vars

SpecGraph == Init /\ [][NextGraph]_vars

SpecStore == Init /\ [][NextStore]_vars

SpecView == Init /\ [][NextView]_vars

SpecWindow == Init /\ [][NextWindow]_vars

SpecLatest == Init /\ [][NextLatest]_vars

(***************************************************************************)
(* Claims about the resilient fetcher (checked under SpecFetch)            *)
(***************************************************************************)

OnlyRetryableSeen == f_empty = 0 /\ f_noraise = 0

\* C1: in a fetcher that takes max_retries, called with the default 5: when
\* the server answers k < 5 retryable statuses and then a non-empty 200,
\* exactly k+1 GETs are issued and that body is returned; when every answer
\* is retryable, exactly 5 GETs are issued and the call raises.  No call ever
\* issues more than 5 GETs.
C1_RetryBudget ==
    (f_fam \in RetryingFamilies /\ f_max = 5) =>
        /\ f_gets <= 5
        /\ (f_pc = "done" /\ OnlyRetryableSeen /\ f_last.status = 200) =>
              /\ Len(f_sleeps) < 5
              /\ f_gets = Len(f_sleeps) + 1
              /\ f_out = Returned(f_last.body)
              /\ f_last.body # << >>
        /\ (OnlyRetryableSeen /\ Len(f_sleeps) = 5) =>
              /\ f_gets = 5
              /\ f_pc = "done" => f_out = Raised("TimeoutError")
        /\ (f_pc = "done" /\ f_out = Raised("TimeoutError")) => f_gets = 5

\* three rate-limited responses, then a success: 4 attempts
C1_Witness ==
    /\ f_fam = "generation" /\ f_max = 5 /\ f_pc = "done"
    /\ OnlyRetryableSeen /\ Len(f_sleeps) = 3 /\ f_gets = 4
    /\ f_out = Returned(DocBody)

NumericRetryAfter == {"0", "3"}
RetryAfterSeconds == ("0" :> 0) @@ ("3" :> 3)

\* C2: the wait after the i-th retryable response is min(2^(i-1), 30), unless
\* that response carries a numeric Retry-After, which is then the wait for that
\* attempt only (the computed backoff keeps doubling); three retryable
\* responses without Retry-After wait 1 + 2 + 4 = 7 in total.
C2_BackoffSchedule ==
    f_fam \in RetryingFamilies =>
        /\ \A i \in 1..Len(f_sleeps) :
              IF f_sleeps[i].ra \in NumericRetryAfter
              THEN f_sleeps[i].wait = RetryAfterSeconds[f_sleeps[i].ra]
              ELSE f_sleeps[i].wait = Min(Pow2(i - 1), 30)
        /\ (Len(f_sleeps) >= 3 /\ \A i \in 1..3 : f_sleeps[i].ra \notin NumericRetryAfter)
              => f_sleeps[1].wait + f_sleeps[2].wait + f_sleeps[3].wait = 7

\* a Retry-After of 3 honoured on the 2nd wait, doubling resumed on the 3rd,
\* and the cap reached on the 6th
C2_Witness ==
    /\ f_fam = "capacity" /\ Len(f_sleeps) = 6
    /\ f_sleeps[2] = [wait |-> 3, ra |-> "3"]
    /\ f_sleeps[3] = [wait |-> 4, ra |-> "absent"]
    /\ f_sleeps[6].wait = 30 /\ f_sleeps[6].ra \notin NumericRetryAfter

BlankSuccess(r) == r.status = 200 /\ Strip(r.body) = << >>

\* C3: every fetcher treats a 200 with an empty or whitespace-only body as
\* retryable: the blank text is never returned to the parser, and another
\* attempt is made while attempts remain in the budget.
C3_BlankSuccessRetried ==
    /\ ~(f_out.kind = "return" /\ ~f_out.isNone /\ Strip(f_out.text) = << >>)
    /\ (BlankSuccess(f_last) /\ f_gets < f_max) => f_pc = "loop"

\* the retrying fetchers do go on after a blank 200
C3_Witness ==
    /\ f_fam = "flows" /\ BlankSuccess(f_last) /\ f_pc = "loop" /\ f_gets = 1

NonRetryableStatus(r) == r.status > 0 /\ r.status \notin ({200} \cup RetryableStatuses)

\* C4: in every fetcher a response with a non-retryable status ends the fetch
\* with an error on that very attempt: no further GET, and no value (None or
\* the error body) handed to the parser.
C4_NonRetryableIsTerminal ==
    NonRetryableStatus(f_last) => (f_pc = "done" /\ f_out.kind = "raise")

\* a 404 does end a retrying fetcher with HTTPError
C4_Witness ==
    /\ f_fam = "capacity" /\ f_last.status = 404 /\ f_out = Raised("HTTPError")

(***************************************************************************)
(* Claims about the parsers (checked under SpecParse)                      *)
(***************************************************************************)

\* a <Reason> with a non-blank <code> and/or <text> child
CarriesCodeOrText(reason) ==
    \/ reason.code.tag = "code" /\ Strip(reason.code.content) # << >>
    \/ reason.text.tag = "text" /\ Strip(reason.text.content) # << >>

InBandError(doc) ==
    doc.wellFormed /\ \E i \in 1..Len(doc.reasons) : CarriesCodeOrText(doc.reasons[i])

\* C5: for every parser, a well-formed document that embeds a Reason element
\* carrying a code and/or a text makes the parse fail with an error; it is
\* never returned as a successful (empty) list of records.
C5_InBandErrorRaises ==
    (p_fam # "none" /\ InBandError(p_doc)) => p_out.kind = "raise"

\* the renewable parser does raise on the acknowledgement document
C5_Witness ==
    /\ p_fam = "A69" /\ p_doc.ns = NsAck /\ InBandError(p_doc)
    /\ p_doc.reasons[1].code = [tag |-> "code", content |-> CodeText, kids |-> 0]
    /\ p_out = ParseRaised("RuntimeError")

(***************************************************************************)
(* Claims about batches (checked under SpecBatch)                          *)
(***************************************************************************)

AllZonesFailed(e) == e.errors = e.zones

\* C6: in the per-country loop of fetch_prices / fetch_generation a country is
\* reported as having no data only when no fetch or parse failed (a
\* well-formed document parsed to zero points), and a country whose every
\* zone failed is reported and counted as failed.
C6_FailureDistinctFromNoData ==
    /\ \A i \in 1..Len(c_report) :
          /\ c_report[i].verdict = "no_data" => c_report[i].errors = 0
          /\ AllZonesFailed(c_report[i]) => c_report[i].verdict = "failed"
    /\ Cardinality({i \in 1..Len(c_report) : AllZonesFailed(c_report[i])}) <= c_failed

\* a country whose zones all answered a well-formed empty document is
\* reported as "no data"
C6_Witness ==
    /\ b_cmd = "fetch_prices" /\ Len(c_report) = 2
    /\ c_report[2] = [country |-> 2, verdict |-> "no_data", zones |-> 2,
                      errors |-> 0, rows |-> 0]

FrameOf(item) == \E j \in 1..Len(q_frames) : q_frames[j].item = item /\ q_frames[j].rows > 0

C7_WitnessStrict ==
    /\ q_kind = "pairs" /\ ~q_skip /\ q_status = "raised"
    /\ Len(q_log) = 1 /\ Len(q_items) > 1

(***************************************************************************)
(* Claims about aggregation and de-duplication (checked under SpecAgg)     *)
(***************************************************************************)

GroupRows(k) == {r \in a_in : r.cat = k[1] /\ r.ts = k[2]}
OutRows(k) == {o \in a_out : o.cat = k[1] /\ o.ts = k[2]}
NonNullSum(R) == SumVals({r \in R : r.val # Null})

\* C8: when per-zone records are summed into a country series, null values
\* are left out of the sum rather than counted as zero (100 and null give
\* 100), and a group whose records are all null is still in the output, with
\* a null aggregate (not 0, not missing).
C8_NullAwareSum ==
    a_op = "aggregate" =>
        \A k \in {<<r.cat, r.ts>> : r \in {x \in a_in : x.cat # NoPsr}} :
            /\ Cardinality(OutRows(k)) = 1
            /\ \A o \in OutRows(k) :
                  o.val = IF \A r \in GroupRows(k) : r.val = Null
                          THEN Null ELSE NonNullSum(GroupRows(k))

\* 100 and null give 100
C8_Witness ==
    /\ a_op = "aggregate" /\ a_fam = "generation"
    /\ a_in = {[zone |-> 1, cat |-> B16, ts |-> 0, val |-> 100],
               [zone |-> 2, cat |-> B16, ts |-> 0, val |-> Null]}
    /\ a_out = {[cat |-> B16, ts |-> 0, val |-> 100]}

LastWithKey(s, r) ==
    s[CHOOSE i \in 1..Len(s) : SameKey(s[i], r) /\ \A j \in (i + 1)..Len(s) : ~SameKey(s[j], r)]

\* the key an input record has in the output (the forecast class renames a
\* missing production type)
OutKeyOf(r) == IF a_fam = "forecast" THEN EnsurePsrValues(r) ELSE r

\* C9: in the non-aggregated per-zone output, when input records share the
\* de-duplication key, exactly one record with that key remains and it is the
\* one that came last in input order.
C9_LastWriteWins ==
    a_op = "dedup" =>
        \A i \in 1..Len(a_in) :
            InWindow(a_in[i]) =>
                /\ Cardinality({j \in 1..Len(a_out) : SameKey(a_out[j], OutKeyOf(a_in[i]))}) = 1
                /\ \A j \in 1..Len(a_out) :
                      SameKey(a_out[j], OutKeyOf(a_in[i]))
                          => a_out[j].val = LastWithKey(a_in, a_in[i]).val

\* get_prices_range keeps the later of two records with one key
C9_Witness ==
    /\ a_op = "dedup" /\ a_fam = "prices"
    /\ a_in = <<[ts |-> 0, cat |-> B16, val |-> 0], [ts |-> 0, cat |-> B16, val |-> 100]>>
    /\ a_out = <<[ts |-> 0, cat |-> B16, val |-> 100]>>

\* the forecast rows that came without a production type are all in the
\* output of get_range, under ALL
MissingKeptByGetRange ==
    \A i \in 1..Len(a_in) :
        (InWindow(a_in[i]) /\ MissingPsr(a_in[i].cat)) =>
            \E j \in 1..Len(a_out) : a_out[j].ts = a_in[i].ts /\ a_out[j].cat = ALL_PSR_CODE
\* ... and are summed into the ALL group of the country series
MissingKeptByAggregate ==
    \A r \in a_in :
        MissingPsr(r.cat) =>
            \E o \in a_out :
                /\ o.cat = ALL_PSR_CODE /\ o.ts = r.ts
                /\ o.val = NonNullSum({x \in a_in : MissingPsr(x.cat) /\ x.ts = r.ts})

\* C18: _ensure_psr_values gives every row whose psr_type is missing or blank
\* the psr_type ALL and the psr_name "All production types", keeps every row
\* and its value, and so no forecast row without a production type is lost in
\* get_range or in the aggregation by country.
C18_MissingPsrKept ==
    /\ a_op = "ensure" =>
          /\ Len(a_out) = Len(a_in)
          /\ \A i \in 1..Len(a_in) :
                /\ a_out[i].val = a_in[i].val /\ a_out[i].ts = a_in[i].ts
                /\ MissingPsr(a_in[i].cat) =>
                      (a_out[i].cat = ALL_PSR_CODE /\ a_out[i].name = ALL_PSR_NAME)
                /\ ~MissingPsr(a_in[i].cat) => a_out[i].cat = a_in[i].cat
    /\ (a_op = "dedup" /\ a_fam = "forecast") => MissingKeptByGetRange
    /\ (a_op = "aggregate" /\ a_fam = "forecast") => MissingKeptByAggregate

\* a frame with a row without psr_type, a blank one and a B16 row
C18_Witness ==
    /\ a_op = "ensure"
    /\ a_in = <<[ts |-> 0, cat |-> NoPsr, name |-> "", val |-> 100],
                [ts |-> 0, cat |-> BlankPsr, name |-> "Solar", val |-> Null],
                [ts |-> 0, cat |-> B16, name |-> "Solar", val |-> 100]>>
    /\ a_out = <<[ts |-> 0, cat |-> ALL_PSR_CODE, name |-> ALL_PSR_NAME, val |-> 100],
                 [ts |-> 0, cat |-> ALL_PSR_CODE, name |-> ALL_PSR_NAME, val |-> Null],
                 [ts |-> 0, cat |-> B16, name |-> "Solar", val |-> 100]>>

(***************************************************************************)
(* Claims about _chunk_datetimes (checked under SpecChunk)                 *)
(***************************************************************************)

ChunksCover ==
    /\ Len(k_out) >= 1
    /\ k_out[1][1] = k_start
    /\ k_out[Len(k_out)][2] = k_end
    /\ \A i \in 1..(Len(k_out) - 1) : k_out[i][2] = k_out[i + 1][1]
    /\ \A i \in 1..Len(k_out) :
          /\ k_out[i][1] < k_out[i][2]
          /\ k_out[i][2] - k_out[i][1] <= TimeDelta(k_max)

TwoAndAHalfSpans == 2 * (k_end - k_start) = 5 * TimeDelta(k_max)

ChunksRight ==
    (k_pc = "done" /\ k_start < k_end) =>
        /\ ChunksCover
        /\ TwoAndAHalfSpans => Len(k_out) = 3

\* C10: for start < end and max_days >= 1, _chunk_datetimes terminates, and
\* what it has yielded by then are consecutive windows: the first begins at
\* start, the last ends at end, each ends where the next begins, each is
\* non-empty and at most max_days long; a range of two and a half spans
\* gives exactly three windows.
C10_ChunksCoverRange == [](ChunksRight) /\ ((k_pc = "loop") ~> (k_pc = "done"))

\* 0 .. 5 half days in spans of one day: (0,2), (2,4), (4,5)
C10_Witness ==
    /\ k_pc = "done" /\ k_start < k_end /\ TwoAndAHalfSpans
    /\ k_out = <<<<0, 2>>, <<2, 4>>, <<4, 5>>>>

(***************************************************************************)
(* Claims about the range fetches (checked under SpecRange)                *)
(***************************************************************************)

\* C11: a range fetch of any family called with start >= end returns an
\* empty result, raises nothing and makes no HTTP request.
C11_EmptyWindowNoRequest ==
    (r_pc # "idle" /\ r_start >= r_end) =>
        /\ r_reqs = << >>
        /\ r_pc = "done" => r_out = "empty"

\* flows get_range with start = end: the empty frame, nothing requested
C11_Witness ==
    /\ r_pc = "done" /\ r_fam = "flows" /\ r_start = r_end
    /\ r_reqs = << >> /\ r_out = "empty"

\* a page that ends the pagination: fewer records than the page size
ShortPage(i) == PageAt(r_total, r_reqs[i][3]) < OffsetStep

\* C12: get_prices_range in paginated mode asks for offsets 0, 100, 200, ...
\* and stops after the first page with fewer records than the page size (or
\* none): nothing is requested after such a page, and every requested page's
\* records are in the result.
C12_PaginationStops ==
    (r_fam = "prices" /\ r_paginate) =>
        /\ \A i \in 1..Len(r_reqs) : r_reqs[i][3] = (i - 1) * OffsetStep
        /\ \A i \in 1..Len(r_reqs) : ShortPage(i) => i = Len(r_reqs)
        /\ r_out = "frame" =>
              r_frames = [i \in 1..Len(r_frames) |-> PageAt(r_total, r_reqs[i][3])]

\* 150 records: pages of 100 and 50 have been fetched
C12_Witness ==
    /\ r_fam = "prices" /\ r_paginate /\ r_total = 150
    /\ r_frames = <<100, 50>>

(***************************************************************************)
(* Claims about the duration codec (checked under SpecCodec)               *)
(***************************************************************************)

IsNumber(t) == t # << >> /\ \A i \in 1..Len(t) : t[i] \in DigitChars
NumberOf(t) == IF t = NoField THEN 0 ELSE Decimal(t)
\* every field that is written carries a decimal number
FieldsNumeric(f) == \A k \in {"Y", "D", "H", "M", "S"} : f[k] = NoField \/ IsNumber(f[k])
KnownMinutes(f) == NumberOf(f.D) * 1440 + NumberOf(f.H) * 60 + NumberOf(f.M)

\* C17: every copy of the codec maps P[nD][T[nH][nM]] to
\* n_days*1440 + n_hours*60 + n_minutes (PT15M 15, PT1H 60, P1D 1440,
\* PT1H30M 90), gives 0 for the empty string without raising, and ignores a
\* unit it does not know (seconds, years) without raising.
C17_CodecValue ==
    d_copy # "none" =>
        /\ d_in = << >> => d_out = 0
        /\ \A f \in DurationFields :
              (d_in = Render(f) /\ FieldsNumeric(f)) => d_out = KnownMinutes(f)

\* PT1H30M gives 90 in the generation copy
C17_Witness ==
    /\ d_copy = "generation"
    /\ d_in = <<"P", "T", "1", "H", "3", "0", "M">>
    /\ d_out = 90

(***************************************************************************)
(* Claims about point expansion (checked under SpecExpand)                 *)
(***************************************************************************)

Expanded == x_fam # "none" /\ x_out # ExpandRaised
ExpandingParsers == {"a75", "a69", "a44", "a11"}
\* what a well-formed resolution says, in minutes (0: it says nothing)
DeclaredMinutes(t) == IF t = PT15M THEN 15 ELSE IF t = PT60M THEN 60 ELSE 0
\* present, but no duration: no leading P, or a field that is no integer
Malformed(t) == t \notin {NoResolution, << >>, PT15M, PT60M}

\* C13: in every parser that expands points, a point at 1-based position p of
\* a period that starts at S and has a resolution of m minutes gets the
\* timestamp S + (p-1)*m (start 00:00, PT60M, position 3: 02:00).
C13_PointTimestamp ==
    (Expanded /\ x_fam \in ExpandingParsers) =>
        \A i \in 1..Len(x_out) :
            DeclaredMinutes(x_out[i].pres) > 0 =>
                x_out[i].ts = x_out[i].start
                                + (x_out[i].pos - 1) * DeclaredMinutes(x_out[i].pres)

\* _parse_a75: a period at 0 with PT60M, the point at position 3 lands on 120
C13_Witness ==
    /\ x_fam = "a75" /\ Expanded /\ Len(x_out) = 1
    /\ x_out[1].pres = PT60M /\ x_out[1].start = 0 /\ x_out[1].pos = 3
    /\ x_out[1].ts = 120

\* the step the document asks for: the period's resolution, else the
\* series', else 60 minutes
ExpectedStep(r) ==
    IF DeclaredMinutes(r.pres) > 0 THEN DeclaredMinutes(r.pres)
    ELSE IF DeclaredMinutes(r.sres) > 0 THEN DeclaredMinutes(r.sres)
    ELSE 60

\* C14: in every family, prices and flows included, the step used for a
\* period's points is the period's own resolution when it has one, else the
\* series-level resolution, else 60 minutes.
C14_ResolutionFallback ==
    (Expanded /\ x_fam \in ExpandingParsers) =>
        \A i \in 1..Len(x_out) :
            (~Malformed(x_out[i].pres) /\ ~Malformed(x_out[i].sres)) =>
                x_out[i].ts = x_out[i].start + (x_out[i].pos - 1) * ExpectedStep(x_out[i])

\* _parse_a75: no resolution in the period, PT15M on the series
C14_Witness ==
    /\ x_fam = "a75" /\ Expanded /\ Len(x_out) = 1
    /\ x_out[1].pres = NoResolution /\ x_out[1].sres = PT15M /\ x_out[1].pos = 3
    /\ x_out[1].ts = 30

\* C15: the list a parser returns is strictly ascending by (timestamp,
\* category): sorted by timestamp first, and no two records share a
\* (timestamp, category) pair.
C15_StrictlyAscending ==
    Expanded =>
        \A i \in 1..(Len(x_out) - 1) :
            \/ x_out[i].ts < x_out[i + 1].ts
            \/ (x_out[i].ts = x_out[i + 1].ts /\ x_out[i].cat < x_out[i + 1].cat)

\* _parse_a75: two series given out of order, each with its points out of order
C15_Witness ==
    /\ x_fam = "a75" /\ Expanded
    /\ Len(x_doc) = 2 /\ x_doc[1].cat = B19 /\ x_doc[2].cat = B16
    /\ x_doc[1].periods[1].pts = <<2, 1>> /\ x_doc[2].periods[1].pts = <<2, 1>>
    /\ x_doc[1].periods[1].start = 0 /\ x_doc[2].periods[1].start = 0
    /\ [i \in 1..Len(x_out) |-> <<x_out[i].ts, x_out[i].cat>>]
          = <<<<0, B16>>, <<0, B19>>, <<60, B16>>, <<60, B19>>>>

\* the parser read a resolution string that is present but no duration
ReadsMalformed ==
    \E k \in 1..Len(x_doc) : \E j \in 1..Len(x_doc[k].periods) :
        Malformed(ResolutionOf(x_fam, x_doc[k], x_doc[k].periods[j]))

\* C16: when the resolution string is present but cannot be parsed, the parser
\* does not fall back to its default step: the decode error reaches the caller
\* and no records come out of the document.
C16_MalformedResolutionRaises ==
    (x_fam \in ExpandingParsers /\ ReadsMalformed) => x_out = ExpandRaised

\* _parse_a75 on a period whose resolution is PTxM
C16_Witness ==
    /\ x_fam = "a75" /\ x_out = ExpandRaised
    /\ Len(x_doc) = 1 /\ Len(x_doc[1].periods) = 1
    /\ x_doc[1].periods[1].res = <<"P", "T", "x", "M">>

(***************************************************************************)
(* Claims about the neighbour graph of fetch_flows (checked under          *)
(* SpecGraph)                                                              *)
(***************************************************************************)

Selected == Range(g_iso)
\* N is a neighbour of a selected S that has a zone mapping
EdgeWanted(S, N) == S \in Selected /\ N \in NeighborsOf(g_neigh, S) /\ N \in g_mapped /\ N # S

\* C19: for every selected country S and every configured neighbour N of S
\* with a zone mapping (N # S), both (S,N) and (N,S) are emitted, whether N is
\* selected or not; a neighbour without a zone mapping gets no edge and is in
\* the skipped set. BG with neighbours RO and GR, only RO mapped, gives
\* exactly (BG,RO), (RO,BG) and reports GR.
C19_NeighborEdges ==
    g_pc # "idle" =>
        /\ \A S \in IsoCodes, N \in IsoCodes :
              EdgeWanted(S, N) => (<<S, N>> \in Range(g_edges) /\ <<N, S>> \in Range(g_edges))
        /\ \A e \in Range(g_edges) : EdgeWanted(e[1], e[2]) \/ EdgeWanted(e[2], e[1])
        /\ g_skipped = {N \in IsoCodes : N \notin g_mapped
                          /\ \E S \in Selected : N \in NeighborsOf(g_neigh, S)}
        /\ \A e \in Range(g_edges) : e[1] \notin g_skipped /\ e[2] \notin g_skipped
        /\ (g_iso = <<1>> /\ g_neigh[1] = {2, 3} /\ g_mapped = {1, 2}) =>
              (g_edges = <<<<1, 2>>, <<2, 1>>>> /\ g_skipped = {3})

\* BG = 1 selected, RO = 2 mapped, GR = 3 not mapped
C19_Witness ==
    /\ g_pc = "edges" /\ g_iso = <<1>> /\ g_mapped = {1, 2}
    /\ g_neigh = (1 :> {2, 3})
    /\ g_edges = <<<<1, 2>>, <<2, 1>>>> /\ g_skipped = {3}

\* the zone pairs of the edges: every zone of the source with every zone of
\* the destination
ZoneSet(c) == Range(ZonesOf(c))
WantedPairs ==
    UNION {ZoneSet(e[1]) \X ZoneSet(e[2]) : e \in Range(g_edges)}
\* where a pair first comes up: edge by edge, source zones outermost
FirstComesUp(p) ==
    LET k == CHOOSE k \in 1..Len(g_edges) :
                 /\ p \in ZoneSet(g_edges[k][1]) \X ZoneSet(g_edges[k][2])
                 /\ \A j \in 1..(k - 1) : p \notin ZoneSet(g_edges[j][1]) \X ZoneSet(g_edges[j][2])
    IN <<k, p[1], p[2]>>
TripleLess(a, b) ==
    \/ a[1] < b[1]
    \/ a[1] = b[1] /\ a[2] < b[2]
    \/ a[1] = b[1] /\ a[2] = b[2] /\ a[3] < b[3]

\* C20: _expand_iso_pairs_to_eic_pairs returns exactly the pairs (o, i) with o
\* a zone of an edge's source and i a zone of its destination, none twice, in
\* order of first occurrence, and keeps (A,B) and (B,A) as two pairs.
C20_ZonePairs ==
    g_pc = "pairs" =>
        /\ Range(g_pairs) = WantedPairs
        /\ \A i \in 1..Len(g_pairs), j \in 1..Len(g_pairs) : i # j => g_pairs[i] # g_pairs[j]
        /\ \A i \in 1..Len(g_pairs), j \in 1..Len(g_pairs) :
              i < j => TripleLess(FirstComesUp(g_pairs[i]), FirstComesUp(g_pairs[j]))
        /\ \A p \in WantedPairs : <<p[2], p[1]>> \in WantedPairs =>
              (p \in Range(g_pairs) /\ <<p[2], p[1]>> \in Range(g_pairs))

\* countries 1 (one zone) and 2 (two zones), each selected and each other's
\* neighbour: four edges, four distinct zone pairs
C20_Witness ==
    /\ g_pc = "pairs" /\ g_iso = <<1, 2>>
    /\ g_edges = <<<<1, 2>>, <<2, 1>>, <<2, 1>>, <<1, 2>>>>
    /\ g_pairs = <<<<11, 21>>, <<11, 22>>, <<21, 11>>, <<22, 11>>>>

\* C21: a selected country without configured neighbours only produces a
\* warning: whenever the selection holds such a country, handle() does not
\* terminate with a CommandError, also when that country is the only one.
C21_MissingNeighborsOnlyWarn == g_missing # << >> => g_pc # "CommandError"
\* a country without neighbours was selected and handle() got past the pairs
C21_Witness == g_missing # << >> /\ g_pc = "summarized"

(***************************************************************************)
(* Claims about persistence (checked under SpecStore)                      *)
(***************************************************************************)
\* every record submitted so far
SubmittedRecords ==
    UNION {{s_saved[f][i] : i \in 1..Len(s_saved[f])} : f \in 1..Len(s_saved)}

Unmapped(z) == z \notin DOMAIN EicToCountryIsoMap

\* every flow submitted has its row under its own zone pair, with a null
\* country on each side whose zone the mapping does not know
FlowsKeptWithNull ==
    \A r \in SubmittedRecords :
       \E row \in s_table :
          /\ row.key = <<r.ts, r.ent[1], r.ent[2]>>
          /\ Unmapped(r.ent[1]) => row.country_from = NoCountry
          /\ Unmapped(r.ent[2]) => row.country_to = NoCountry

\* every stored renewable row comes from a submitted record of a mapped
\* zone, under that zone's country
UnmappedGenerationDropped ==
    \A row \in s_table :
       \E r \in SubmittedRecords :
          /\ ~Unmapped(r.ent[1])
          /\ row.key = <<EicToCountryIsoMap[r.ent[1]], r.cat, r.ts>>
          /\ row.val = r.val

C22_WitnessGeneration ==
    /\ s_fam = "renewable"
    /\ \E r \in SubmittedRecords : Unmapped(r.ent[1])
    /\ s_table # {}

AtMostOneRowPerKey == \A a \in s_table, b \in s_table : a.key = b.key => a = b

\* C23: for each save function, the store holds at most one row per
\* de-duplication key after any saves, and submitting the same records a
\* second time leaves the stored keys and values as the first submission
\* left them.
C23_IdempotentUpsert ==
    /\ AtMostOneRowPerKey
    /\ s_pc = "resubmitted" => s_table = s_first
\* a frame that stored something was submitted twice
C23_Witness == s_pc = "resubmitted" /\ s_table # {} /\ s_fam = "prices"

\* the records of the last save
LastSaved == {s_saved[Len(s_saved)][i] : i \in 1..Len(s_saved[Len(s_saved)])}

\* C30: country resolution in save_flows_df reflects the Country store: a
\* flow saved while the Country row of its mapped zone exists is stored with
\* that country, also when an earlier flow of the zone was saved before the
\* row was created.
C30_ResolutionIsCurrent ==
    (s_fam = "flows" /\ s_saved # << >>) =>
        \A r \in LastSaved :
           \A row \in s_table :
              row.key = <<r.ts, r.ent[1], r.ent[2]>> =>
                 /\ EicToIsoGet(r.ent[1]) \in s_at => row.country_from = EicToIsoGet(r.ent[1])
                 /\ EicToIsoGet(r.ent[2]) \in s_at => row.country_to = EicToIsoGet(r.ent[2])
\* a flow of zone zA was saved before Country AA existed, AA was created, and
\* a later frame with a flow of zA was saved
C30_Witness ==
    /\ s_fam = "flows"
    /\ s_pc = "next"
    /\ \E r \in LastSaved : r.ent[1] = "zA"
    /\ \E i \in 1..Len(s_saved[1]) : s_saved[1][i].ent[1] = "zA"
    /\ "AA" \in s_at
    /\ "AA" \in DOMAIN s_cache /\ s_cache["AA"] = NoCountry

(***************************************************************************)
(* Claims about the views' country validation (checked under SpecView)     *)
(***************************************************************************)
\* C24: the partition of the requested country codes returns (valid, missing)
\* and never raises for unknown codes: valid holds exactly the requested
\* codes present in the Country table, missing exactly the requested codes
\* absent from it, in request order; the two are disjoint and cover the
\* request, and valid is empty when no requested code exists.
C24_PartitionCountryCodes ==
    v_pc = "done" =>
        LET asked == {v_codes[i] : i \in 1..Len(v_codes)} \ {BlankCode}
            valid == {v_out.valid[i] : i \in 1..Len(v_out.valid)}
            missing == {v_out.missing[i] : i \in 1..Len(v_out.missing)}
        IN /\ v_out.raised = "no"
           /\ valid = asked \cap v_store
           /\ v_out.missing = SelectSeq(v_codes, LAMBDA c : c \in ViewCodes \ v_store)
           /\ valid \cap missing = {}
           /\ valid \cup missing = asked
           /\ asked \cap v_store = {} => v_out.valid = << >>
\* a request with a known and an unknown code was validated
C24_Witness ==
    /\ v_pc = "done"
    /\ \E i \in 1..Len(v_codes) : v_codes[i] \in v_store
    /\ \E i \in 1..Len(v_codes) : v_codes[i] \in ViewCodes \ v_store

(***************************************************************************)
(* Claims about bound alignment and the commands' window (checked under    *)
(* SpecWindow)                                                             *)
(***************************************************************************)
\* f is a UTC instant on a boundary of the step (in minutes) with
\* f <= d < f + step
FloorOf(f, d, step) ==
    /\ f.off = 0
    /\ Instant(f) % (step * 60) = 0
    /\ Instant(f) <= Instant(d)
    /\ Instant(d) < Instant(f) + step * 60

\* what the string says: a date alone is midnight UTC, a date and a time
\* followed by Z is that time in UTC
SaidInstant(q) ==
    IF Len(q) = 1 THEN [t |-> q[1].a * MinutesPerDay, s |-> 0, off |-> 0]
    ELSE [t |-> q[1].a * MinutesPerDay + q[2].a, s |-> q[2].b, off |-> 0]

\* C25: _floor_to_step(d, 15), _utc_floor_hour and _parse_iso_utc_floor_hour
\* return a UTC instant f on a step boundary with f <= d < f + step, and
\* flooring twice is flooring once; _parse_iso_utc_floor_hour accepts an ISO
\* datetime with a trailing Z and a date alone (midnight UTC) and raises
\* ValueError for a string that is not a date.
C25_BoundAlignment ==
    /\ w_op = "_floor_to_step" =>
          /\ w_out.raised = "no"
          /\ FloorOf(w_out.start, w_in[1], 15)
          /\ FloorToStep(w_out.start, 15) = w_out.start
    /\ w_op = "_utc_floor_hour" =>
          /\ w_out.raised = "no"
          /\ FloorOf(w_out.start, w_in[1], 60)
          /\ UtcFloorHour(w_out.start) = w_out.start
    /\ w_op = "_parse_iso_utc_floor_hour" =>
          /\ Kinds(w_in) \in {<<"date">>, <<"date", "time", "Z">>,
                              <<"date", "time", "frac", "Z">>} =>
                /\ w_out.raised = "no"
                /\ FloorOf(w_out.start, SaidInstant(w_in), 60)
          /\ (w_in = << >> \/ \E i \in 1..Len(w_in) : w_in[i] = IsoText) =>
                w_out.raised = "ValueError"
          /\ w_out.raised = "no" => UtcFloorHour(w_out.start) = w_out.start
\* a datetime in another zone, off the quarter-hour and with seconds, floored
C25_Witness ==
    /\ w_op = "_floor_to_step"
    /\ w_in[1].off = 330
    /\ w_in[1].s = 59
    /\ Instant(w_out.start) + 14 * 60 + 59 = Instant(w_in[1])
\* "2026-02-11T22:30:10.000Z" was parsed to 22:00 UTC
C25_WitnessParse ==
    /\ w_op = "_parse_iso_utc_floor_hour"
    /\ w_in = <<IsoDate, IsoTime(1350, 10), IsoFrac, IsoZ>>
    /\ w_out = Window("no", [t |-> MinutesPerDay + 1320, s |-> 0, off |-> 0],
                            [t |-> MinutesPerDay + 1320, s |-> 0, off |-> 0])

\* C28: in fetch_generation and fetch_generation_forecast called with --start
\* and --end, the window handed to the fetcher after quarter-hour alignment
\* has start < end, as in fetch_flows.
C28_AlignedWindowNotEmpty ==
    (w_op \in WindowCommands /\ w_out.raised = "no") =>
        Instant(w_out.start) < Instant(w_out.end)
\* a command accepted a window whose bounds are in different quarter-hours
C28_Witness ==
    /\ w_op = "fetch_generation"
    /\ w_out.raised = "no"
    /\ w_in = <<<<IsoDate, IsoTime(14, 59), IsoZ>>, <<IsoDate, IsoTime(15, 0), IsoZ>>>>

(***************************************************************************)
(* Claims about get_latest (checked under SpecLatest)                      *)
(***************************************************************************)
\* the records the rows are taken from, and the window that produced them
LastRecs == l_resps[Len(l_resps)].recs
LastWindow == l_queries[Len(l_queries)]
InWindowRecs == {i \in 1..Len(LastRecs) : LastRecs[i].ts <= LastWindow[2]}

\* C29: get_latest queries the current year's window first and the previous
\* year's window if and only if the first query parsed to zero records; it
\* makes at most two queries, tags every row with the year whose window
\* produced the records and returns one row per production type, the one
\* with the latest timestamp not after the window end.
C29_LatestSnapshot ==
    /\ l_queries # << >> => l_queries[1] = WindowForYear(l_now)
    /\ Len(l_queries) <= 2
    /\ Len(l_queries) = 2 =>
          /\ l_queries[2] = WindowForYear(l_now - 1)
          /\ ~l_resps[1].raised /\ l_resps[1].recs = << >>
    /\ (l_pc \in {"select", "done"} /\ Len(l_queries) = 1) =>
          (l_resps[1].raised \/ l_resps[1].recs # << >>)
    /\ (l_pc = "done" /\ ~l_out.raised) =>
          /\ \A k \in 1..Len(l_out.rows) :
                /\ WindowForYear(l_out.rows[k].year) = LastWindow
                /\ \E i \in InWindowRecs :
                      /\ LastRecs[i].psr = l_out.rows[k].psr_type
                      /\ LastRecs[i].ts = l_out.rows[k].valid_from_utc
                      /\ LastRecs[i].val = l_out.rows[k].installed_capacity_MW
                /\ \A i \in InWindowRecs :
                      LastRecs[i].psr = l_out.rows[k].psr_type =>
                         LastRecs[i].ts <= l_out.rows[k].valid_from_utc
                /\ \A j \in 1..Len(l_out.rows) :
                      l_out.rows[j].psr_type = l_out.rows[k].psr_type => j = k
          /\ \A i \in InWindowRecs :
                \E k \in 1..Len(l_out.rows) : l_out.rows[k].psr_type = LastRecs[i].psr
\* the current year was empty and the previous year gave two records of one
\* production type at different times
C29_Witness ==
    /\ l_pc = "done"
    /\ Len(l_queries) = 2
    /\ Len(l_out.rows) = 1
    /\ Len(LastRecs) = 2
    /\ LastRecs[1].ts < LastRecs[2].ts
    /\ LastRecs[2].ts <= LastWindow[2]


(***************************************************************************)
(* Claims about aggregates of multi-zone countries (checked under SpecBatch)*)
(***************************************************************************)
\* C26: with aggregate_by_country and skip_errors on, no aggregate is
\* returned by query_all_countries, and none is saved by the command, for a
\* country one of whose zones failed to fetch or parse: an aggregate covers
\* all the zones of its country.
C26_NoPartialAggregate ==
    /\ (q_agg /\ q_skip /\ q_status = "returned") =>
          \A c \in CountryCodes :
             AggregatedZones(q_frames, c) # {} => SkippedZones(q_log, c) = {}
    /\ (c_opts.agg /\ ~c_opts.dry) =>
          \A i \in 1..Len(c_report) :
             c_report[i].verdict = "success" => c_report[i].errors = 0
\* fetch_generation saved the aggregate of a two-zone country of which one
\* zone gave rows and the other raised
C26_Witness ==
    /\ b_cmd = "fetch_generation" /\ c_opts.agg
    /\ \E i \in 1..Len(c_report) :
          /\ c_report[i].verdict = "success"
          /\ c_report[i].zones = 2
          /\ c_report[i].errors = 1
          /\ c_report[i].rows = 1


(***************************************************************************)
(* Claims about the tallies of fetch_prices (checked under SpecBatch)      *)
(***************************************************************************)
VerdictCount(V) == Cardinality({i \in 1..Len(c_report) : c_report[i].verdict \in V})

\* C27: in fetch_prices with --continue-on-error every country processed so
\* far is counted in exactly one of successful, failed and countries_no_data,
\* so at the summary successful + failed + |countries_no_data| is the number
\* of countries attempted, in dry-run mode as well.
C27_EveryCountryCountedOnce ==
    (b_cmd = "fetch_prices" /\ c_opts.cont) =>
       /\ Len(c_report) = c_idx - 1
       /\ c_successful = VerdictCount({"success"})
       /\ c_failed = VerdictCount({"failed", "save_failed"})
       /\ c_no_data = SelectSeq([i \in 1..Len(c_report) |-> c_report[i].country],
                                LAMBDA c : \E i \in 1..Len(c_report) :
                                   c_report[i].country = c /\ c_report[i].verdict = "no_data")
       /\ c_successful + c_failed + Len(c_no_data) = c_idx - 1
       /\ c_status = "done" => c_successful + c_failed + Len(c_no_data) = Len(c_todo)
\* the summary of a run over all countries in which one country had no data
\* and the save of another failed
C27_Witness ==
    /\ b_cmd = "fetch_prices" /\ c_opts.cont /\ c_status = "done"
    /\ Len(c_todo) = NumCountries
    /\ Len(c_no_data) = 1
    /\ c_failed = 1
\* a dry run in which one country was counted successful and one had no data
C27_WitnessDryRun ==
    /\ b_cmd = "fetch_prices" /\ c_opts.cont /\ c_opts.dry /\ c_status = "done"
    /\ c_successful = 1
    /\ Len(c_no_data) = 1

====
